---- MODULE Spec2Model ----
(***************************************************************************)
(* A model of the migrates engine (src/migrates): the staged migration     *)
(* orchestrator Migrates.migrate with its failure handler, the bulk Batch  *)
(* it writes through, and the command-line commands that drive it (run,    *)
(* restore_indexes, restore_history).  The Elasticsearch store is modelled *)
(* by its indexes, its template catalog and the history index.             *)
(*                                                                         *)
(* Index names, type names and patterns are sequences of characters, so    *)
(* that prefixing (get_dummy_index), prefix stripping (get_original_index) *)
(* and wildcard matching (match_pattern) are computed, not assumed.        *)
(***************************************************************************)
EXTENDS Integers, Sequences, FiniteSets, TLC

(***************************************************************************)
(* Bounds of the model.                                                    *)
(***************************************************************************)
\* Longest list of migration names the operator passes to `run`.
MaxUnits == 2
\* Number of commands issued in one session.
MaxCommands == 2
\* Number of `run` commands among them.
MaxRuns == 1
\* Batch.size (1000 in batch.py), scaled down so that a flush happens mid-stage.
BatchSize == 2
\* Batch.indexes_size (5 in batch.py), scaled down likewise.
IndexesSize == 2

(***************************************************************************)
(* Names.                                                                  *)
(***************************************************************************)
ta == <<"t", "a">>
tb == <<"t", "b">>
tstar == <<"t", "*">>
star == <<"*">>
typ == <<"p">>
tyq == <<"q">>

\* Migrates.default_dummy_index_prefix ('migrates_dummy_')
default_dummy_index_prefix == <<"d", "_">>

\* The user indexes a store may hold.
UserIndexes == {ta, tb}

\* Migrates.get_dummy_index
get_dummy_index(index) == default_dummy_index_prefix \o index

\* str.startswith, as used by get_original_index
StartsWith(s, prefix) ==
    /\ Len(s) >= Len(prefix)
    /\ SubSeq(s, 1, Len(prefix)) = prefix

\* get_original_index that strips nothing.
get_original_index_keeps(dummy) == dummy

\* Migrates.get_original_index (the caller treats a name without the prefix as an error)
get_original_index(dummy) ==
    SubSeq(dummy, Len(default_dummy_index_prefix) + 1, Len(dummy))

AllIndexes == UserIndexes \cup {get_dummy_index(i) : i \in UserIndexes}

\* Migrates.match_pattern / get_pattern_regex: every character is literal but
\* '*', which matches any run of characters; the match is anchored at both ends.
RECURSIVE match_pattern(_, _)
match_pattern(pattern, target) ==
    IF pattern = <<>> THEN target = <<>>
    ELSE IF Head(pattern) = "*"
         THEN \/ match_pattern(Tail(pattern), target)
              \/ (target # <<>> /\ match_pattern(pattern, Tail(target)))
         ELSE /\ target # <<>>
              /\ Head(target) = Head(pattern)
              /\ match_pattern(Tail(pattern), Tail(target))

(***************************************************************************)
(* The store: indexes.                                                     *)
(***************************************************************************)
\* The number of shards the store gives an index created without the setting.
DefaultShards == 1

NoSettings == [has_index |-> FALSE, creation_date |-> FALSE, number_of_shards |-> 0]

NoIndex == [exists |-> FALSE, docs |-> {}, settings |-> NoSettings, mappings |-> 0]

\* The (type, id) pairs documents of the model carry.
DocKeys == {[type |-> typ, id |-> 1], [type |-> tyq, id |-> 2]}

KeyOf(d) == [type |-> d.type, id |-> d.id]

\* indices.create(index, body): the store stamps the creation date and fills
\* in the settings the body leaves out.
IndexCreate(idx, name, body) ==
    [idx EXCEPT ![name] =
        [exists |-> TRUE, docs |-> {},
         settings |-> [has_index |-> TRUE, creation_date |-> TRUE,
                       number_of_shards |->
                           IF body.settings.has_index
                           THEN body.settings.number_of_shards
                           ELSE DefaultShards],
         mappings |-> body.mappings]]

\* indices.delete leaving the index in place.
IndexDeleteKeeps(idx, name) == idx

\* indices.delete(index)
IndexDelete(idx, name) == [idx EXCEPT ![name] = NoIndex]

\* One bulk action with _op_type 'index': the document replaces the one with
\* the same type and id; a missing index is created by the store on the fly.
IndexDoc(idx, a) ==
    LET cur == IF idx[a.index].exists THEN idx[a.index]
               ELSE [exists |-> TRUE, docs |-> {},
                     settings |-> [has_index |-> TRUE, creation_date |-> TRUE,
                                   number_of_shards |-> DefaultShards],
                     mappings |-> 0]
        d == [type |-> a.type, id |-> a.id, source |-> a.source]
    IN [idx EXCEPT ![a.index] =
           [cur EXCEPT !.docs = {x \in cur.docs : KeyOf(x) # KeyOf(d)} \cup {d}]]

\* elasticsearch.helpers.bulk over a list of actions, in order.
RECURSIVE BulkApply(_, _)
BulkApply(idx, actions) ==
    IF actions = <<>> THEN idx
    ELSE BulkApply(IndexDoc(idx, Head(actions)), Tail(actions))

\* The actions of a list at the positions in `keep`, in order.
RECURSIVE SelectActions(_, _, _)
SelectActions(actions, keep, i) ==
    IF i > Len(actions) THEN <<>>
    ELSE (IF i \in keep THEN <<actions[i]>> ELSE <<>>)
         \o SelectActions(actions, keep, i + 1)

(***************************************************************************)
(* Migration units (class Migration) and the registry.                     *)
(***************************************************************************)
\* Names of the templates of the store; "H" is Migrates.default_history_template.
history_template == "H"
TplNames == {"T1", "T2", history_template}

\* A template catalog maps every name to a body; body 0 is "no such template".
\* The body enforce_history_template puts.
HistoryTemplateBody == 9

\* The registry (Migrates.registry): name -> Migration.  A document transform
\* map is a set of entries (index pattern, type pattern, function).
registry ==
    [n \in {"m1", "m2", "m3", "m4", "m5"} |->
        CASE n = "m1" -> [name |-> n, date |-> 1, repeat |-> FALSE, internal |-> FALSE,
                          docs |-> {[ip |-> ta, tp |-> typ, fn |-> "inc"]},
                          tpl |-> "add"]
          [] n = "m2" -> [name |-> n, date |-> 2, repeat |-> FALSE, internal |-> FALSE,
                          docs |-> {[ip |-> tstar, tp |-> star, fn |-> "raise_ge1"]},
                          tpl |-> "none"]
          [] n = "m3" -> [name |-> n, date |-> 2, repeat |-> FALSE, internal |-> FALSE,
                          docs |-> {[ip |-> ta, tp |-> star, fn |-> "to_tb"]},
                          tpl |-> "del"]
          [] n = "m4" -> [name |-> n, date |-> 3, repeat |-> TRUE, internal |-> FALSE,
                          docs |-> {[ip |-> tstar, tp |-> tyq, fn |-> "null"]},
                          tpl |-> "none"]
          [] n = "m5" -> [name |-> n, date |-> 3, repeat |-> FALSE, internal |-> FALSE,
                          docs |-> {},
                          tpl |-> "null"]]

MigrationNames == DOMAIN registry

\* The orders in which the registry dictionary may enumerate its values.
RegistryOrders == {<<"m1", "m2", "m3", "m4", "m5">>, <<"m5", "m4", "m3", "m2", "m1">>}

\* All the orders in which a set may be enumerated.
RECURSIVE SeqsOf(_)
SeqsOf(S) ==
    IF S = {} THEN {<<>>}
    ELSE UNION {{<<x>> \o s : s \in SeqsOf(S \ {x})} : x \in S}

\* Migration.transform_templates: the unit's template transform applied to a
\* catalog; ok is FALSE when the transform returns None.
transform_templates(m, templates) ==
    CASE m.tpl = "add" -> [ok |-> TRUE, templates |-> [templates EXCEPT !["T1"] = 2]]
      [] m.tpl = "del" -> [ok |-> TRUE, templates |-> [templates EXCEPT !["T2"] = 0]]
      [] m.tpl = "null" -> [ok |-> FALSE, templates |-> templates]
      [] m.tpl = "set" -> [ok |-> TRUE, templates |-> m.loaded]
      [] OTHER -> [ok |-> TRUE, templates |-> templates]

\* Migrates.get_updated_templates: the template transforms of the migrations
\* folded over a copy of the original templates in list order.  `applied` is
\* the list of the names of the units applied.
RECURSIVE TemplateFold(_, _, _, _)
TemplateFold(migrations, i, templates, applied) ==
    IF i > Len(migrations)
    THEN [ok |-> TRUE, templates |-> templates, applied |-> applied]
    ELSE LET r == transform_templates(migrations[i], templates)
             a == Append(applied, migrations[i].name)
         IN IF ~r.ok THEN [ok |-> FALSE, templates |-> templates, applied |-> a]
            ELSE TemplateFold(migrations, i + 1, r.templates, a)

get_updated_templates(migrations, original_templates) ==
    TemplateFold(migrations, 1, original_templates, <<>>)

\* Migration.get_document_transform: the name of the function the unit applies
\* to the document, "id" when no pattern matches, "ambiguous" (an error) when
\* several index patterns or several type patterns match.
get_document_transform(m, document) ==
    LET index_keys == {e.ip : e \in {x \in m.docs : match_pattern(x.ip, document.index)}}
    IN IF Cardinality(index_keys) > 1 THEN "ambiguous"
       ELSE IF index_keys = {} THEN "id"
       ELSE LET index_key == CHOOSE k \in index_keys : TRUE
                entries == {x \in m.docs : x.ip = index_key
                                           /\ match_pattern(x.tp, document.type)}
            IN IF Cardinality(entries) > 1 THEN "ambiguous"
               ELSE IF entries = {} THEN "id"
               ELSE (CHOOSE x \in entries : TRUE).fn

\* Migration.transform_document: status "ok" with the new document, "null"
\* when the transform returns None, "raise" when it raises.
transform_document(m, document) ==
    LET fn == IF document.index = <<>> /\ m.docs # {}
              THEN "ambiguous"   \* document['_index'] raises KeyError
              ELSE get_document_transform(m, document)
    IN CASE fn = "inc" ->
              [status |-> "ok", doc |-> [document EXCEPT !.source = @ + 1]]
         [] fn = "to_tb" ->
              [status |-> "ok", doc |-> [document EXCEPT !.index = tb]]
         [] fn = "set_index" ->
              [status |-> "ok", doc |-> [document EXCEPT !.index = m.target]]
         [] fn = "del_index" ->
              [status |-> "ok", doc |-> [document EXCEPT !.index = <<>>]]
         [] fn = "null" -> [status |-> "null", doc |-> document]
         [] fn = "raise_ge1" ->
              IF document.source >= 1 THEN [status |-> "raise", doc |-> document]
              ELSE [status |-> "ok", doc |-> document]
         [] fn = "ambiguous" -> [status |-> "raise", doc |-> document]
         [] OTHER -> [status |-> "ok", doc |-> document]

\* The loop over self.migrations in Migrates.migrate_indexes for one document:
\* each unit is touched and applied in list order; the loop stops at the first
\* unit that raises or returns None.
RECURSIVE DocFold(_, _, _, _)
DocFold(migrations, i, document, touched) ==
    IF i > Len(migrations)
    THEN [status |-> "ok", doc |-> document, touched |-> touched]
    ELSE LET r == transform_document(migrations[i], document)
             t == Append(touched, migrations[i].name)
         IN IF r.status = "ok" THEN DocFold(migrations, i + 1, r.doc, t)
            ELSE [status |-> r.status, doc |-> document, touched |-> t]

\* list.sort(key=lambda migration: migration.date): a stable sort by date.
RECURSIVE InsertByDate(_, _)
InsertByDate(sorted, m) ==
    IF sorted = <<>> THEN <<m>>
    ELSE IF Head(sorted).date <= m.date
         THEN <<Head(sorted)>> \o InsertByDate(Tail(sorted), m)
         ELSE <<m>> \o sorted

RECURSIVE SortByDate(_)
SortByDate(s) ==
    IF s = <<>> THEN <<>>
    ELSE InsertByDate(SortByDate(SubSeq(s, 1, Len(s) - 1)), s[Len(s)])

\* The registry's values, in the enumeration order `order`, that satisfy keep.
RECURSIVE RegistryValues(_, _)
RegistryValues(order, performed) ==
    IF order = <<>> THEN <<>>
    ELSE (IF registry[Head(order)].repeat \/ Head(order) \notin performed
          THEN <<registry[Head(order)]>> ELSE <<>>)
         \o RegistryValues(Tail(order), performed)

\* Migrates.get_performed_migrations: the names in the history index.
get_performed_migrations(hist) == {h.name : h \in hist}

\* Migrates.get_pending_migrations
get_pending_migrations(order, hist) ==
    SortByDate(RegistryValues(order, get_performed_migrations(hist)))

\* Migrates.get_affected_indexes: the existing indexes whose name matches an
\* index pattern of a document transform of any of the migrations.
get_affected_indexes(migrations, idx) ==
    LET patterns == UNION {{e.ip : e \in migrations[i].docs} : i \in 1..Len(migrations)}
    IN {n \in DOMAIN idx : idx[n].exists /\ \E p \in patterns : match_pattern(p, n)}

\* Migrates.get_index_settings: mappings and settings of each index (read from
\* its dummy when `dummies`), the 'index' settings removed when they hold a
\* creation date; an index that is not found gets no entry.
get_index_settings(idx, indexes, dummies) ==
    [index \in UserIndexes |->
        LET target == IF dummies THEN get_dummy_index(index) ELSE index
        IN IF index \in indexes /\ idx[target].exists
           THEN [present |-> TRUE,
                 mappings |-> idx[target].mappings,
                 settings |-> IF idx[target].settings.has_index
                                 /\ idx[target].settings.creation_date
                              THEN NoSettings
                              ELSE idx[target].settings]
           ELSE [present |-> FALSE, mappings |-> 0, settings |-> NoSettings]]

\* The order in which a template dictionary of the model is enumerated.
TplOrder == <<"T1", "T2", history_template>>

\* Migrates.migrate_templates: the store operations it issues, in order: a
\* delete for every name of `original` that is absent from or different in
\* `updated`, then a put for every name of `updated` that is not unchanged.
RECURSIVE TemplateDeletes(_, _, _)
TemplateDeletes(original, updated, i) ==
    IF i > Len(TplOrder) THEN <<>>
    ELSE LET name == TplOrder[i]
         IN (IF original[name] # 0 /\ original[name] # updated[name]
             THEN <<[op |-> "delete", name |-> name, body |-> 0]>> ELSE <<>>)
            \o TemplateDeletes(original, updated, i + 1)

RECURSIVE TemplatePuts(_, _, _)
TemplatePuts(original, updated, i) ==
    IF i > Len(TplOrder) THEN <<>>
    ELSE LET name == TplOrder[i]
         IN (IF updated[name] # 0 /\ original[name] # updated[name]
             THEN <<[op |-> "put", name |-> name, body |-> updated[name]]>> ELSE <<>>)
            \o TemplatePuts(original, updated, i + 1)

\* migrate_templates without its second loop, the puts.
migrate_templates_deletes_only(original, updated) ==
    TemplateDeletes(original, updated, 1)

migrate_templates(original, updated) ==
    TemplateDeletes(original, updated, 1) \o TemplatePuts(original, updated, 1)

\* Whether the store accepts a template operation: delete_template of a
\* missing template and put_template(create=True) of an existing one raise.
TemplateOpAccepted(tpl, o) ==
    IF o.op = "delete" THEN tpl[o.name] # 0 ELSE tpl[o.name] = 0

\* TemplateOpApply with every operation taken as a delete.
TemplateOpApplyDeletes(tpl, o) == [tpl EXCEPT ![o.name] = 0]

TemplateOpApply(tpl, o) == [tpl EXCEPT ![o.name] = o.body]

\* Migrates.migration_action: the history record of a unit for a run stamp.
migration_action(m, stamp) == [name |-> m.name, stamp |-> stamp]

(***************************************************************************)
(* State.                                                                  *)
(***************************************************************************)
VARIABLES
    indexes,     \* the store: index name -> [exists, docs, settings, mappings]
    templates,   \* the store: template name -> body (0: no such template)
    history,     \* the store: the records of the history index
    files,       \* the recovery directory: run stamp -> the three recovery files
    mig,         \* the Migrates object of the command in progress (or the last one)
    pc,          \* the position of the command in progress; "idle" between commands
    fail_state,  \* the MigratesFailState handle_migration_failure was entered with
    pos,         \* position in self.affected of the loop in progress
    scanned,     \* keys of the documents the scan in progress has yielded
    batch,       \* Batch.actions of the batch in progress
    ops,         \* the template operations migrate_templates has yet to issue
    obs,         \* what an observer of the command has seen (history variables)
    ncmd,        \* number of commands started
    nrun,        \* number of `run` commands started
    bw,          \* a Batch object driven on its own (batch.py)
    reg,         \* a registry filled by Migrates.add, and the adds made on it
    trial,       \* the comparison of two runs with one run (test_sequence.py)
    cleanup,     \* a recovery directory under restore_cleanup, and the call made
    det          \* a MigratesIndexDetail recorder and the loop that drives it

vars == <<indexes, templates, history, files, mig, pc, fail_state, pos, scanned,
          batch, ops, obs, ncmd, nrun, bw, reg, trial, cleanup, det>>

Stamps == 1..MaxCommands

NoCatalog == [n \in TplNames |-> 0]

NoFiles == [templates |-> [written |-> FALSE, data |-> NoCatalog],
            migrations |-> [written |-> FALSE, data |-> <<>>],
            indexes |-> [written |-> FALSE, data |-> <<>>]]

NoIndexSettings ==
    [index \in UserIndexes |-> [present |-> FALSE, mappings |-> 0, settings |-> NoSettings]]

\* Migrates.__init__
NewMigrates(cmd, dry, keep_dummies, restore, stamp) ==
    [cmd |-> cmd, dry |-> dry, no_history |-> FALSE, keep_dummies |-> keep_dummies,
     restore |-> restore, stamp |-> stamp, explicit |-> FALSE, args |-> <<>>,
     migrations |-> <<>>, affected |-> <<>>, settings |-> NoIndexSettings,
     original_templates |-> NoCatalog, updated_templates |-> NoCatalog]

\* What the observer remembers of the last `run` when a later command starts.
NoRun == [stamp |-> 0, pre |-> <<>>, revert_failed |-> FALSE]

\* What the observer records of one command.
NewObs(idx, tpl, hist) ==
    [pre |-> idx,             \* the indexes when the command began
     given |-> <<>>,          \* names of the list handed to migrate, in order
     revert_failed |-> FALSE, \* revert_indexes_migration ended in its except clause
     last_run |-> NoRun,      \* the last run, for the commands that follow it
     pre_templates |-> tpl,   \* the template catalog when the command began
     pre_history |-> hist,    \* the history records when the command began
     mutated |-> FALSE,       \* a mutating store operation was issued
     wrote_file |-> FALSE,    \* a recovery file was written
     tpl_touched |-> FALSE,   \* a template delete or put was issued
     orig_deleted |-> FALSE,  \* the delete of an affected original index was issued
     copied |-> FALSE,        \* every dummy was created and the copy into them flushed
     rec_err |-> FALSE,       \* a step of the recovery raised (caught or not)
     crashed |-> FALSE,       \* an exception left the command
     dummy_err |-> FALSE,     \* the removal of the dummies at stage 10 raised
     tpl_order |-> <<>>,      \* names of the units applied by the template fold
     folds |-> 0,             \* number of documents the document fold was run on
     aborted_at |-> 0,        \* value of folds when a document ended migrate_indexes
     last_fold |-> [status |-> "none", touched |-> <<>>]]

\* Batch.__init__: a Batch with the given sizes, and what an observer of it
\* records: the actions added, the bulk calls made, the calls made by the
\* flush in progress or last ended, the last add, the exit.
NewBatch(size, indexes_size) ==
    [size |-> size, indexes_size |-> indexes_size, indexes |-> {}, actions |-> <<>>,
     state |-> "open", attempts |-> 0, exiting |-> FALSE,
     added |-> <<>>, calls |-> <<>>, flush_calls |-> 0, raised |-> FALSE,
     last_add |-> [after |-> <<>>, flushed |-> FALSE],
     exit |-> [done |-> FALSE, exc |-> FALSE, actions |-> <<>>, calls |-> 0]]

\* The class attribute Migrates.registry before any unit is added, and what
\* an observer of it records: every call of add and whether it raised, and
\* the registry as it was before the last call.
NewRegistry == [registry |-> <<>>, calls |-> <<>>, before |-> <<>>]

\* A recovery directory holding the files `names`, no restore_cleanup made.
NewDirectory(names) ==
    [dir |-> names, before |-> names,
     call |-> [done |-> FALSE, older_than |-> 0, keep_files |-> 0, dry |-> FALSE]]

\* The document types of the user indexes.
DocTypes == {typ, tyq}

\* The units of the run whose documents the recorder is told about, in order.
DetailUnits == <<"m1", "m2">>

\* None, where a document is expected.
NoDocument == [index |-> <<>>, type |-> <<>>, id |-> 0]

\* MigratesIndexDetail.__init__; logger is what the recorder has logged.
NewIndexDetail(detail) ==
    [detail |-> detail,
     logger |-> <<>>,
     index_touched |-> [i \in UserIndexes |-> 0],
     index_deleted |-> [i \in UserIndexes |-> 0],
     migration_touched |-> [m \in {DetailUnits[k] : k \in DOMAIN DetailUnits} |-> 0],
     migration_deleted |-> [m \in {DetailUnits[k] : k \in DOMAIN DetailUnits} |-> 0],
     migration_errors |-> [m \in {DetailUnits[k] : k \in DOMAIN DetailUnits} |-> 0],
     shown_doc_types |-> [i \in UserIndexes |-> {}],
     document |-> NoDocument,
     document_index |-> <<>>,
     document_type |-> <<>>,
     document_detail |-> FALSE,
     document_touched_by |-> {},
     document_deleted_by |-> "none",
     document_errored_by |-> "none",
     document_exceptions |-> [p \in UserIndexes \X DocTypes |-> 0]]

\* The loop of migrate_indexes around a recorder: where it stands (at), the
\* document in hand, the unit to apply next, the number of documents scanned,
\* and whether delete, error were called since the last pre.
NewDetailLoop(detail, dry) ==
    [self |-> NewIndexDetail(detail), dry |-> dry, at |-> "scan",
     document |-> NoDocument, unit |-> 1, ndocs |-> 0,
     deleted |-> FALSE, errored |-> FALSE]

NoDetail == NewDetailLoop(FALSE, FALSE)

\* No comparison of runs is under way.
NoTrial == [step |-> 0, first |-> "", second |-> "", docs |-> <<>>, templates |-> <<>>,
            built |-> 0]   \* the instant the test built its Migrates object

\* The stores a session may start from.
DocsA == {[type |-> typ, id |-> 1, source |-> 0], [type |-> tyq, id |-> 2, source |-> 1]}
DocsB == {[type |-> typ, id |-> 1, source |-> 1]}

StoredSettings(shards) ==
    [has_index |-> TRUE, creation_date |-> TRUE, number_of_shards |-> shards]

InitIndexes ==
    [n \in AllIndexes |->
        CASE n = ta -> [exists |-> TRUE, docs |-> DocsA,
                        settings |-> StoredSettings(2), mappings |-> 1]
          [] n = tb -> [exists |-> TRUE, docs |-> DocsB,
                        settings |-> StoredSettings(1), mappings |-> 2]
          [] OTHER -> NoIndex]

InitTemplates == [n \in TplNames |-> IF n = history_template THEN 0 ELSE 1]

InitHistories == {{[name |-> "m1", stamp |-> 0], [name |-> "m5", stamp |-> 0]},
                  {[name |-> "m2", stamp |-> 0], [name |-> "m3", stamp |-> 0],
                   [name |-> "m5", stamp |-> 0]}}

Init ==
    /\ indexes = InitIndexes
    /\ templates = InitTemplates
    /\ history \in InitHistories
    /\ files = [s \in Stamps |-> NoFiles]
    /\ mig = NewMigrates("none", FALSE, FALSE, FALSE, 0)
    /\ pc = "idle"
    /\ fail_state = "none"
    /\ pos = 1
    /\ scanned = {}
    /\ batch = <<>>
    /\ ops = <<>>
    /\ obs = NewObs(indexes, templates, history)
    /\ ncmd = 0
    /\ nrun = 0
    /\ bw = NewBatch(BatchSize, IndexesSize)
    /\ reg = NewRegistry
    /\ trial = NoTrial
    /\ cleanup = NewDirectory({})
    /\ det = NoDetail

(***************************************************************************)
(* Control.                                                                *)
(***************************************************************************)
Goto(p) ==
    /\ pc' = p
    /\ pos' = 1
    /\ scanned' = {}
    /\ batch' = <<>>
    /\ ops' = <<>>

GotoOps(p, o) ==
    /\ pc' = p
    /\ pos' = 1
    /\ scanned' = {}
    /\ batch' = <<>>
    /\ ops' = o

\* MigratesFailState.NoRecoveryNeeded
NoRecoveryNeeded == {"GetMigrations", "GetTemplates", "BackupTemplates",
                     "PendingMigrations", "GetAffected", "TransformTemplates"}

\* handle_migration_failure taking every failure of a run that is not dry as
\* one that needs the dummies removed.
FailTargetAlwaysRecovers(state, m) ==
    IF m.dry THEN "idle" ELSE "remove_dummy_indexes"

\* Migrates.handle_migration_failure: where the handler goes first.
FailTarget(state, m) ==
    IF m.dry THEN "idle"
    ELSE CASE state \in NoRecoveryNeeded -> "idle"
           [] state = "CreateDummies" -> "remove_dummy_indexes"
           [] state = "PersistTemplates" -> "remove_dummy_indexes"
           [] state = "MigrateDocuments" -> "revert_template_migration"
           [] OTHER -> "idle"

handle_migration_failure(state) ==
    /\ fail_state' = state
    /\ Goto(FailTarget(state, mig))

\* The argument lists of `run`: the non-empty lists of at most MaxUnits names.
RECURSIVE ListsUpTo(_)
ListsUpTo(n) ==
    IF n = 0 THEN {<<>>}
    ELSE LET shorter == ListsUpTo(n - 1)
         IN shorter \cup {Append(l, x) : l \in {y \in shorter : Len(y) = n - 1},
                                         x \in MigrationNames}

ArgLists == ListsUpTo(MaxUnits) \ {<<>>}

\* The option sets of a command: (dry, keep_dummies, a restore path is set).
OptionSets == {<<FALSE, FALSE, TRUE>>, <<TRUE, FALSE, TRUE>>,
               <<FALSE, TRUE, TRUE>>, <<FALSE, FALSE, FALSE>>}

(***************************************************************************)
(* The `run` command and stages 1 to 6 of Migrates.migrate.                *)
(***************************************************************************)
\* cli.run sorting the units of the names given by date.
cli_run_migrations_sorted(explicit, args, order, hist) ==
    IF explicit THEN SortByDate([i \in 1..Len(args) |-> registry[args[i]]])
    ELSE get_pending_migrations(order, hist)

\* cli.run: the Migration objects of the names given, in the order given, or
\* the pending migrations when no name is given.
cli_run_migrations(explicit, args, order, hist) ==
    IF explicit THEN [i \in 1..Len(args) |-> registry[args[i]]]
    ELSE get_pending_migrations(order, hist)

\* migrate sorting the list it is given by date.
migrate_migrations_sorted(given) == SortByDate(given)

\* Migrates.migrate, "self.migrations = list(migrations)".
migrate_migrations(given) == given

\* The argument of Migrates.migrate: None, or a list of units.
NoArgument == [none |-> TRUE, list |-> <<>>]

ListArgument(given) == [none |-> FALSE, list |-> given]

\* resolve_migrations keeping only the first migration of a list given.
resolve_migrations_first_only(argument, order, hist) ==
    IF argument.none THEN get_pending_migrations(order, hist)
    ELSE SubSeq(migrate_migrations(argument.list), 1, 1)

\* Migrates.migrate, stage 1: the pending migrations when the argument is
\* None, else the list given.
resolve_migrations(argument, order, hist) ==
    IF argument.none THEN get_pending_migrations(order, hist)
    ELSE migrate_migrations(argument.list)

\* Migrates.migrate, "if not migrations: return": the test is made on the
\* argument, and both None and the empty list are false.
bails_out(argument) == argument.none \/ argument.list = <<>>

run(explicit, args, order, opt) ==
    /\ pc = "idle"
    /\ ncmd < MaxCommands
    /\ nrun < MaxRuns
    /\ LET given == cli_run_migrations(explicit, args, order, history)
           argument == ListArgument(given)
       IN /\ mig' = [NewMigrates("run", opt[1], opt[2], opt[3], ncmd + 1)
                        EXCEPT !.explicit = explicit, !.args = args,
                               !.migrations = resolve_migrations(argument, order, history)]
          /\ obs' = [NewObs(indexes, templates, history)
                        EXCEPT !.given = [i \in 1..Len(given) |-> given[i].name]]
          /\ IF bails_out(argument) THEN Goto("idle") ELSE Goto("get_templates")
    /\ ncmd' = ncmd + 1
    /\ nrun' = nrun + 1
    /\ fail_state' = "none"
    /\ UNCHANGED <<indexes, templates, history, files, bw, reg, trial, cleanup, det>>

\* Migrates.migrate() called without a list, as the library allows: the
\* pending migrations are resolved from the registry, enumerated in `order`,
\* and the history.  With ok false the read of the history raises (an error
\* other than NotFound) and stage 1 fails.
migrate_pending(order, opt, ok) ==
    /\ pc = "idle"
    /\ ncmd < MaxCommands
    /\ nrun < MaxRuns
    /\ mig' = [NewMigrates("migrate", opt[1], opt[2], opt[3], ncmd + 1)
                 EXCEPT !.args = order,
                        !.migrations = IF ok
                                       THEN resolve_migrations(NoArgument, order, history)
                                       ELSE <<>>]
    /\ obs' = [NewObs(indexes, templates, history)
                 EXCEPT !.given = [i \in 1..Len(mig'.migrations) |->
                                      mig'.migrations[i].name]]
    /\ IF ok
       THEN /\ IF bails_out(NoArgument) THEN Goto("idle") ELSE Goto("get_templates")
            /\ fail_state' = "none"
       ELSE /\ Goto(FailTarget("GetMigrations", mig'))
            /\ fail_state' = "GetMigrations"
    /\ ncmd' = ncmd + 1
    /\ nrun' = nrun + 1
    /\ UNCHANGED <<indexes, templates, history, files, bw, reg, trial, cleanup, det>>

\* Stage 2: self.original_templates = self.get_templates()
get_templates(ok) ==
    /\ pc = "get_templates"
    /\ IF ok
       THEN /\ mig' = [mig EXCEPT !.original_templates = templates]
            /\ Goto("write_original_templates")
            /\ UNCHANGED fail_state
       ELSE /\ handle_migration_failure("GetTemplates")
            /\ UNCHANGED mig
    /\ UNCHANGED <<indexes, templates, history, files, obs, ncmd, nrun, bw, reg, trial, cleanup, det>>

\* write_original_templates with the stage that writes the pending history
\* actions left out.
AfterBackupTemplatesSkipsPending == "get_affected_indexes"

\* The stage that follows BackupTemplates in migrate: PendingMigrations.
AfterBackupTemplates == "write_pending_migrations"

\* Stage 3: write_original_templates, skipped on a dry run and without a path.
write_original_templates(ok) ==
    /\ pc = "write_original_templates"
    /\ ok \/ (~mig.dry /\ mig.restore)
    /\ IF ok
       THEN /\ Goto(AfterBackupTemplates)
            /\ UNCHANGED fail_state
            /\ IF ~mig.dry /\ mig.restore
               THEN /\ files' = [files EXCEPT ![mig.stamp].templates =
                                    [written |-> TRUE, data |-> mig.original_templates]]
                    /\ obs' = [obs EXCEPT !.wrote_file = TRUE]
               ELSE UNCHANGED <<files, obs>>
       ELSE /\ handle_migration_failure("BackupTemplates")
            /\ UNCHANGED <<files, obs>>
    /\ UNCHANGED <<indexes, templates, history, mig, ncmd, nrun, bw, reg, trial, cleanup, det>>

\* The history actions of the migrations of the run.
migration_actions(m) ==
    [i \in 1..Len(m.migrations) |-> migration_action(m.migrations[i], m.stamp)]

\* Stage 4: write_pending_migrations, skipped on a dry run and without a path.
write_pending_migrations(ok) ==
    /\ pc = "write_pending_migrations"
    /\ ok \/ (~mig.dry /\ mig.restore)
    /\ IF ok
       THEN /\ Goto("get_affected_indexes")
            /\ UNCHANGED fail_state
            /\ IF ~mig.dry /\ mig.restore
               THEN /\ files' = [files EXCEPT ![mig.stamp].migrations =
                                    [written |-> TRUE, data |-> migration_actions(mig)]]
                    /\ obs' = [obs EXCEPT !.wrote_file = TRUE]
               ELSE UNCHANGED <<files, obs>>
       ELSE /\ handle_migration_failure("PendingMigrations")
            /\ UNCHANGED <<files, obs>>
    /\ UNCHANGED <<indexes, templates, history, mig, ncmd, nrun, bw, reg, trial, cleanup, det>>

\* Stage 5: get_affected_indexes, write_affected_indexes, get_index_settings.
\* outcome "early": the store fails while the patterns are resolved; "late":
\* it fails while the settings are read, after the file was written.
get_affected(affected, outcome) ==
    /\ pc = "get_affected_indexes"
    /\ affected \in SeqsOf(get_affected_indexes(mig.migrations, indexes))
    /\ outcome = "late" => ~mig.dry
    /\ IF outcome # "early" /\ ~mig.dry /\ mig.restore
       THEN /\ files' = [files EXCEPT ![mig.stamp].indexes =
                            [written |-> TRUE, data |-> affected]]
            /\ obs' = [obs EXCEPT !.wrote_file = TRUE]
       ELSE UNCHANGED <<files, obs>>
    /\ IF outcome = "ok"
       THEN /\ mig' = [mig EXCEPT
                         !.affected = affected,
                         !.settings =
                             IF mig.dry THEN NoIndexSettings
                             ELSE get_index_settings(indexes,
                                      {affected[i] : i \in 1..Len(affected)}, FALSE)]
            /\ Goto("get_updated_templates")
            /\ UNCHANGED fail_state
       ELSE /\ mig' = [mig EXCEPT !.affected = IF outcome = "late" THEN affected ELSE @]
            /\ handle_migration_failure("GetAffected")
    /\ UNCHANGED <<indexes, templates, history, ncmd, nrun, bw, reg, trial, cleanup, det>>

\* NeedsDummies with the test of the dry flag inverted.
NeedsDummiesDryInverted(m) == m.affected # <<>> /\ m.dry

\* Stage 7 runs "if self.affected and not self.dry".
NeedsDummies(m) == m.affected # <<>> /\ ~m.dry

\* Stage 6: self.updated_templates = self.get_updated_templates()
transform_templates_stage ==
    /\ pc = "get_updated_templates"
    /\ LET r == get_updated_templates(mig.migrations, mig.original_templates)
       IN /\ obs' = [obs EXCEPT !.tpl_order = r.applied]
          /\ IF r.ok
             THEN /\ mig' = [mig EXCEPT !.updated_templates = r.templates]
                  /\ UNCHANGED fail_state
                  /\ IF NeedsDummies(mig)
                     THEN Goto("create_dummy_indexes")
                     ELSE GotoOps("migrate_templates",
                                  IF mig.dry THEN <<>>
                                  ELSE migrate_templates(mig.original_templates,
                                                         r.templates))
             ELSE /\ handle_migration_failure("TransformTemplates")
                  /\ UNCHANGED mig
    /\ UNCHANGED <<indexes, templates, history, files, ncmd, nrun, bw, reg, trial, cleanup, det>>

(***************************************************************************)
(* The Batch (batch.py) as the stages use it.                              *)
(***************************************************************************)
\* Batch.add, the condition under which it flushes.
BatchFull(actions) ==
    \/ Len(actions) >= BatchSize
    \/ Cardinality({actions[i].index : i \in 1..Len(actions)}) >= IndexesSize

\* How one step of a scan-and-write loop may end: "ok"; "scan_fail", the scan
\* (or an interrupt) raises before the document is handled; "flush_fail", the
\* flush raises after the store has applied the actions at the positions keep.
Outcomes ==
    {[kind |-> "ok", keep |-> {}], [kind |-> "scan_fail", keep |-> {}]}
    \cup {[kind |-> "flush_fail", keep |-> k] : k \in SUBSET (1..BatchSize)}

\* Batch.flush: the indexes after a flush of `actions` that ends as `out`.
Flush(idx, actions, out) ==
    IF out.kind = "ok" THEN BulkApply(idx, actions)
    ELSE BulkApply(idx, SelectActions(actions, out.keep, 1))

\* The documents of index `src` the scan in progress has not yielded yet.
Remaining(src) == {d \in indexes[src].docs : KeyOf(d) \notin scanned}

\* CopyAction that loses the source of the document.
CopyActionSourceLost(target, d) ==
    [index |-> target, type |-> d.type, id |-> d.id, source |-> 0]

\* The bulk action that copies document d into index `target`.
CopyAction(target, d) ==
    [index |-> target, type |-> d.type, id |-> d.id, source |-> d.source]

(***************************************************************************)
(* Stage 7: create_dummy_indexes and populate_dummy_indexes.               *)
(***************************************************************************)
\* Whether, in the store idx, the dummy of every affected index of m exists
\* and holds every document the index held in the store pre.
Copied(idx, m, pre) ==
    \A i \in 1..Len(m.affected) :
        /\ idx[get_dummy_index(m.affected[i])].exists
        /\ pre[m.affected[i]].docs \subseteq idx[get_dummy_index(m.affected[i])].docs

\* One iteration of the loop of create_dummy_indexes.  outcome "before": the
\* store fails at the exists check or at the delete of a left-over dummy;
\* "create": it fails at the create, after a left-over dummy was deleted.
create_dummy_indexes(outcome) ==
    /\ pc = "create_dummy_indexes"
    /\ LET index == mig.affected[pos]
           dummy == get_dummy_index(index)
           cleared == IF indexes[dummy].exists THEN IndexDelete(indexes, dummy)
                      ELSE indexes
       IN IF outcome = "ok" /\ mig.settings[index].present
          THEN /\ indexes' = IndexCreate(cleared, dummy, mig.settings[index])
               /\ obs' = [obs EXCEPT !.mutated = TRUE]
               /\ UNCHANGED fail_state
               /\ IF pos = Len(mig.affected)
                  THEN Goto("populate_dummy_indexes")
                  ELSE /\ pos' = pos + 1
                       /\ UNCHANGED <<pc, scanned, batch, ops>>
          ELSE /\ indexes' = IF outcome = "before" THEN indexes ELSE cleared
               /\ obs' = [obs EXCEPT !.mutated = @ \/ outcome # "before"]
               /\ handle_migration_failure("CreateDummies")
    /\ UNCHANGED <<templates, history, files, mig, ncmd, nrun, bw, reg, trial, cleanup, det>>

\* populate_dummy_indexes: one document scanned from the affected index and
\* added to the batch, which flushes when full.
populate_add(d, out) ==
    /\ pc = "populate_dummy_indexes"
    /\ pos <= Len(mig.affected)
    /\ d \in Remaining(mig.affected[pos])
    /\ LET added == Append(batch, CopyAction(get_dummy_index(mig.affected[pos]), d))
       IN /\ out.kind = "flush_fail" => BatchFull(added) /\ out.keep \subseteq 1..Len(added)
          /\ IF out.kind = "ok"
             THEN /\ indexes' = IF BatchFull(added) THEN Flush(indexes, added, out)
                                ELSE indexes
                  /\ batch' = IF BatchFull(added) THEN <<>> ELSE added
                  /\ scanned' = scanned \cup {KeyOf(d)}
                  /\ obs' = [obs EXCEPT !.mutated = @ \/ BatchFull(added)]
                  /\ UNCHANGED <<pc, pos, ops, fail_state>>
             ELSE /\ indexes' = IF out.kind = "flush_fail" THEN Flush(indexes, added, out)
                                ELSE indexes
                  /\ obs' = [obs EXCEPT !.mutated = @ \/ out.kind = "flush_fail"]
                  /\ handle_migration_failure("CreateDummies")
    /\ UNCHANGED <<templates, history, files, mig, ncmd, nrun, bw, reg, trial, cleanup, det>>

\* populate_dummy_indexes: the scan of one index is exhausted.
populate_next ==
    /\ pc = "populate_dummy_indexes"
    /\ pos <= Len(mig.affected)
    /\ Remaining(mig.affected[pos]) = {}
    /\ pos' = pos + 1
    /\ scanned' = {}
    /\ UNCHANGED <<indexes, templates, history, files, mig, pc, fail_state, batch,
                   ops, obs, ncmd, nrun, bw, reg, trial, cleanup, det>>

\* populate_dummy_indexes: the with block ends and Batch.__exit__ flushes.
populate_exit(out) ==
    /\ pc = "populate_dummy_indexes"
    /\ pos > Len(mig.affected)
    /\ out.kind # "scan_fail"
    /\ out.kind = "flush_fail" => batch # <<>> /\ out.keep \subseteq 1..Len(batch)
    /\ indexes' = Flush(indexes, batch, out)
    /\ IF out.kind = "ok"
       THEN /\ obs' = [obs EXCEPT !.mutated = @ \/ batch # <<>>,
                                  !.copied = Copied(indexes', mig, obs.pre)]
            /\ GotoOps("migrate_templates",
                       migrate_templates(mig.original_templates, mig.updated_templates))
            /\ UNCHANGED fail_state
       ELSE /\ obs' = [obs EXCEPT !.mutated = TRUE]
            /\ handle_migration_failure("CreateDummies")
    /\ UNCHANGED <<templates, history, files, mig, ncmd, nrun, bw, reg, trial, cleanup, det>>

(***************************************************************************)
(* Stage 8: migrate_templates(original_templates, updated_templates).      *)
(***************************************************************************)
\* AfterTemplates without the test of the dry flag.
AfterTemplatesDryIgnored(m) ==
    IF m.affected # <<>> THEN "remove_indexes" ELSE "remove_dummies"

\* The stage that follows stage 8.
AfterTemplates(m) ==
    IF m.affected # <<>>
    THEN (IF m.dry THEN "migrate_indexes" ELSE "remove_indexes")
    ELSE "remove_dummies"

\* One store operation of migrate_templates; with ops empty, its return.  A
\* failure (~ok) stands for a store error at the operation or an interrupt.
migrate_templates_step(ok) ==
    /\ pc = "migrate_templates"
    /\ ok \/ ~mig.dry
    /\ IF ops = <<>>
       THEN /\ IF ok THEN Goto(AfterTemplates(mig)) /\ UNCHANGED fail_state
                  ELSE handle_migration_failure("PersistTemplates")
            /\ UNCHANGED <<templates, obs>>
       ELSE /\ obs' = [obs EXCEPT !.mutated = TRUE, !.tpl_touched = TRUE]
            /\ IF ok /\ TemplateOpAccepted(templates, Head(ops))
               THEN /\ templates' = TemplateOpApply(templates, Head(ops))
                    /\ ops' = Tail(ops)
                    /\ UNCHANGED <<pc, pos, scanned, batch, fail_state>>
               ELSE /\ handle_migration_failure("PersistTemplates")
                    /\ UNCHANGED templates
    /\ UNCHANGED <<indexes, history, files, mig, ncmd, nrun, bw, reg, trial, cleanup, det>>

(***************************************************************************)
(* Stage 9: remove_indexes(self.affected) and migrate_indexes.             *)
(***************************************************************************)
\* One iteration of remove_indexes over the affected indexes.
remove_indexes(ok) ==
    /\ pc = "remove_indexes"
    /\ obs' = [obs EXCEPT !.mutated = TRUE, !.orig_deleted = TRUE]
    /\ IF ok
       THEN /\ indexes' = IndexDelete(indexes, mig.affected[pos])
            /\ UNCHANGED fail_state
            /\ IF pos = Len(mig.affected)
               THEN Goto("migrate_indexes")
               ELSE /\ pos' = pos + 1
                    /\ UNCHANGED <<pc, scanned, batch, ops>>
       ELSE /\ handle_migration_failure("MigrateDocuments")
            /\ UNCHANGED indexes
    /\ UNCHANGED <<templates, history, files, mig, ncmd, nrun, bw, reg, trial, cleanup, det>>

\* validate_transformed_document accepting every document.
validate_transformed_document_any(document) == TRUE

\* Migrates.validate_transformed_document
validate_transformed_document(document) == document.index # <<>>

\* The index migrate_indexes scans for an affected index.
ScanSource(m, index) == IF m.dry THEN index ELSE get_dummy_index(index)

\* ScannedDocument that leaves the name of the scanned index in the document.
ScannedDocumentShadowName(m, src, d) ==
    [index |-> src, type |-> d.type, id |-> d.id, source |-> d.source]

\* The document as the loop of migrate_indexes hands it to the first unit.
ScannedDocument(m, src, d) ==
    [index |-> IF m.dry THEN src ELSE get_original_index(src),
     type |-> d.type, id |-> d.id, source |-> d.source]

\* migrate_indexes: one document scanned, transformed by the migrations and,
\* unless it was deleted, added to the batch.  On a run that is not dry a
\* transform that raises, or a result that is not valid, ends the stage.
migrate_add(d, out) ==
    /\ pc = "migrate_indexes"
    /\ pos <= Len(mig.affected)
    /\ d \in Remaining(ScanSource(mig, mig.affected[pos]))
    /\ LET src == ScanSource(mig, mig.affected[pos])
           r == DocFold(mig.migrations, 1, ScannedDocument(mig, src, d), <<>>)
           written == r.status = "ok" /\ ~mig.dry
           raised == \/ r.status = "raise" /\ ~mig.dry
                     \/ written /\ ~validate_transformed_document(r.doc)
           added == IF written /\ ~raised
                    THEN Append(batch, [index |-> r.doc.index, type |-> r.doc.type,
                                        id |-> r.doc.id, source |-> r.doc.source])
                    ELSE batch
           full == written /\ ~raised /\ BatchFull(added)
       IN /\ out.kind = "flush_fail" => full /\ out.keep \subseteq 1..Len(added)
          /\ obs' = [obs EXCEPT
                       !.folds = IF out.kind = "scan_fail" THEN @ ELSE @ + 1,
                       !.last_fold = IF out.kind = "scan_fail" THEN @
                                     ELSE [status |-> r.status, touched |-> r.touched],
                       !.aborted_at = IF out.kind # "scan_fail" /\ raised
                                      THEN obs.folds + 1 ELSE @,
                       !.mutated = @ \/ (full /\ out.kind # "scan_fail")]
          /\ IF out.kind = "ok" /\ ~raised
             THEN /\ indexes' = IF full THEN Flush(indexes, added, out) ELSE indexes
                  /\ batch' = IF full THEN <<>> ELSE added
                  /\ scanned' = scanned \cup {KeyOf(d)}
                  /\ UNCHANGED <<pc, pos, ops, fail_state>>
             ELSE /\ indexes' = IF out.kind = "flush_fail" THEN Flush(indexes, added, out)
                                ELSE indexes
                  /\ handle_migration_failure("MigrateDocuments")
    /\ UNCHANGED <<templates, history, files, mig, ncmd, nrun, bw, reg, trial, cleanup, det>>

\* migrate_indexes: the scan of one index is exhausted.
migrate_next ==
    /\ pc = "migrate_indexes"
    /\ pos <= Len(mig.affected)
    /\ Remaining(ScanSource(mig, mig.affected[pos])) = {}
    /\ pos' = pos + 1
    /\ scanned' = {}
    /\ UNCHANGED <<indexes, templates, history, files, mig, pc, fail_state, batch,
                   ops, obs, ncmd, nrun, bw, reg, trial, cleanup, det>>

\* migrate_indexes: the with block ends and Batch.__exit__ flushes.
migrate_exit(out) ==
    /\ pc = "migrate_indexes"
    /\ pos > Len(mig.affected)
    /\ out.kind # "scan_fail"
    /\ out.kind = "flush_fail" => batch # <<>> /\ out.keep \subseteq 1..Len(batch)
    /\ indexes' = Flush(indexes, batch, out)
    /\ obs' = [obs EXCEPT !.mutated = @ \/ batch # <<>>]
    /\ IF out.kind = "ok"
       THEN Goto("remove_dummies") /\ UNCHANGED fail_state
       ELSE handle_migration_failure("MigrateDocuments")
    /\ UNCHANGED <<templates, history, files, mig, ncmd, nrun, bw, reg, trial, cleanup, det>>

(***************************************************************************)
(* Stage 10: the dummies are removed; stage 11: write_migration_history.   *)
(***************************************************************************)
\* One iteration of remove_indexes over the dummies (migrate, stage 10).  An
\* error is logged and the run goes on to the history.
remove_dummies(ok) ==
    /\ pc = "remove_dummies"
    /\ ok \/ (~mig.dry /\ pos <= Len(mig.affected))
    /\ IF mig.dry \/ pos > Len(mig.affected)
       THEN Goto("write_history") /\ UNCHANGED <<indexes, obs>>
       ELSE /\ obs' = [obs EXCEPT !.mutated = TRUE, !.dummy_err = ~ok]
            /\ IF ok
               THEN /\ indexes' = IndexDelete(indexes, get_dummy_index(mig.affected[pos]))
                    /\ pos' = pos + 1
                    /\ UNCHANGED <<pc, scanned, batch, ops>>
               ELSE Goto("write_history") /\ UNCHANGED indexes
    /\ UNCHANGED <<templates, history, files, mig, fail_state, ncmd, nrun, bw, reg, trial, cleanup, det>>

\* The positions of a list of n history actions after which the batch flushes.
HistoryFlushPoints(n) == {i \in 1..n : i % BatchSize = 0 \/ i = n}

\* The positions the flush at position f sends.
ChunkOf(f) ==
    LET size == IF f % BatchSize = 0 THEN BatchSize ELSE f % BatchSize
    IN {i \in 1..f : i > f - size}

\* How the batch of write_migration_history may end: "ok", or the flush at
\* position `at` raises after the store has applied the positions in keep.
HistoryOutcomes(n) ==
    {[kind |-> "ok", at |-> 0, keep |-> {}]}
    \cup UNION {{[kind |-> "flush_fail", at |-> f, keep |-> k] : k \in SUBSET ChunkOf(f)}
                  : f \in HistoryFlushPoints(n)}

\* Migrates.write_migration_history: the template catalog and the history
\* records it leaves, whether it issued a store mutation, whether it raised.
\* tplOk: enforce_history_template succeeds (its failure is logged).
write_migration_history(m, actions, tplOk, out) ==
    IF m.no_history
    THEN [templates |-> templates, history |-> history, mutated |-> FALSE,
          raised |-> FALSE]
    ELSE LET tpl == IF tplOk THEN [templates EXCEPT ![history_template] = HistoryTemplateBody]
                    ELSE templates
         IN IF m.dry \/ actions = <<>>
            THEN [templates |-> tpl, history |-> history, mutated |-> TRUE,
                  raised |-> FALSE]
            ELSE [templates |-> tpl,
                  history |-> history \cup
                      {actions[i] : i \in IF out.kind = "ok" THEN 1..Len(actions)
                                          ELSE (1..(out.at - Cardinality(ChunkOf(out.at))))
                                               \cup out.keep},
                  mutated |-> TRUE,
                  raised |-> out.kind # "ok"]

\* Stage 11 of migrate: write_migration_history unless the run is dry.
write_history(tplOk, out) ==
    /\ pc = "write_history"
    /\ out \in HistoryOutcomes(Len(mig.migrations))
    /\ (mig.dry \/ mig.no_history) => tplOk /\ out.kind = "ok"
    /\ IF mig.dry
       THEN /\ Goto("idle")
            /\ UNCHANGED <<templates, history, obs, fail_state>>
       ELSE LET r == write_migration_history(mig, migration_actions(mig), tplOk, out)
            IN /\ templates' = r.templates
               /\ history' = r.history
               /\ obs' = [obs EXCEPT !.mutated = @ \/ r.mutated,
                                     !.crashed = r.raised /\ ~mig.restore]
               /\ IF r.raised
                  THEN handle_migration_failure("WriteHistory")
                  ELSE Goto("idle") /\ UNCHANGED fail_state
    /\ UNCHANGED <<indexes, files, mig, ncmd, nrun, bw, reg, trial, cleanup, det>>

(***************************************************************************)
(* Recovery: remove_dummy_indexes, revert_template_migration,              *)
(* revert_indexes_migration.                                               *)
(***************************************************************************)
\* Where handle_migration_failure (or restore_indexes) goes after
\* remove_dummy_indexes.
AfterRemoveDummyIndexes ==
    IF fail_state = "PersistTemplates" THEN "revert_template_migration" ELSE "idle"

\* Where handle_migration_failure goes after revert_template_migration.
AfterRevertTemplates ==
    IF fail_state = "MigrateDocuments" THEN "revert_indexes_migration" ELSE "idle"

\* Migrates.remove_dummy_indexes, one iteration: nothing with keep_dummies;
\* an error is logged and ends the removal.
remove_dummy_indexes(ok) ==
    /\ pc = "remove_dummy_indexes"
    /\ LET skip == mig.keep_dummies \/ mig.dry \/ pos > Len(mig.affected)
       IN /\ ok \/ ~skip
          /\ IF skip
             THEN Goto(AfterRemoveDummyIndexes) /\ UNCHANGED <<indexes, obs>>
             ELSE IF ok
                  THEN /\ indexes' = IndexDelete(indexes,
                                                 get_dummy_index(mig.affected[pos]))
                       /\ pos' = pos + 1
                       /\ obs' = [obs EXCEPT !.mutated = TRUE]
                       /\ UNCHANGED <<pc, scanned, batch, ops>>
                  ELSE /\ Goto(AfterRemoveDummyIndexes)
                       /\ obs' = [obs EXCEPT !.mutated = TRUE, !.rec_err = TRUE]
                       /\ UNCHANGED indexes
    /\ UNCHANGED <<templates, history, files, mig, fail_state, ncmd, nrun, bw, reg, trial, cleanup, det>>

\* Migrates.revert_template_migration, its entry: nothing to revert when the
\* updated templates equal the original ones, else migrate_templates is run
\* from the updated to the original templates.
revert_template_migration ==
    /\ pc = "revert_template_migration"
    /\ IF mig.updated_templates = mig.original_templates
       THEN Goto(AfterRevertTemplates)
       ELSE GotoOps("revert_templates",
                    migrate_templates(mig.updated_templates, mig.original_templates))
    /\ UNCHANGED <<indexes, templates, history, files, mig, fail_state, obs, ncmd, nrun, bw, reg, trial, cleanup, det>>

\* One store operation of the migrate_templates call of the revert.  An
\* error is logged; reporting it needs the recovery path.
revert_templates_step(ok) ==
    /\ pc = "revert_templates"
    /\ ok \/ ops # <<>>
    /\ IF ops = <<>>
       THEN Goto(AfterRevertTemplates) /\ UNCHANGED <<templates, obs>>
       ELSE IF ok /\ TemplateOpAccepted(templates, Head(ops))
            THEN /\ templates' = TemplateOpApply(templates, Head(ops))
                 /\ ops' = Tail(ops)
                 /\ obs' = [obs EXCEPT !.mutated = TRUE, !.tpl_touched = TRUE]
                 /\ UNCHANGED <<pc, pos, scanned, batch>>
            ELSE /\ obs' = [obs EXCEPT !.mutated = TRUE, !.tpl_touched = TRUE,
                                       !.rec_err = TRUE, !.crashed = ~mig.restore]
                 /\ Goto(IF mig.restore THEN AfterRevertTemplates ELSE "idle")
                 /\ UNCHANGED templates
    /\ UNCHANGED <<indexes, history, files, mig, fail_state, ncmd, nrun, bw, reg, trial, cleanup, det>>

\* The except clause of revert_indexes_migration: the dummies are kept and
\* the operator is pointed to restore_indexes.
\* The except clause of revert_indexes_migration followed by the removal of
\* the dummies.
RevertFailedRemoves ==
    /\ obs' = [obs EXCEPT !.mutated = TRUE, !.rec_err = TRUE, !.revert_failed = TRUE,
                           !.crashed = ~mig.restore]
    /\ Goto("remove_dummy_indexes")

RevertFailed ==
    /\ obs' = [obs EXCEPT !.mutated = TRUE, !.rec_err = TRUE, !.revert_failed = TRUE,
                           !.crashed = ~mig.restore]
    /\ Goto("idle")

\* revert_indexes_migration, first loop, one iteration: an affected index
\* whose dummy exists is deleted if it exists and created from the settings.
\* outcome "before": the store fails before the index is touched; "create":
\* it fails at the create.
\* revert_indexes_migration, first loop, with the test for the dummy left out.
RevertRecreatesAny(idx, index) == TRUE

\* revert_indexes_migration, first loop: the original is deleted and
\* recreated only when its dummy exists.
RevertRecreates(idx, index) == idx[get_dummy_index(index)].exists

revert_indexes_migration(outcome) ==
    /\ pc = "revert_indexes_migration"
    /\ IF pos > Len(mig.affected)
       THEN /\ outcome = "ok"
            /\ Goto("revert_copy")
            /\ UNCHANGED <<indexes, obs>>
       ELSE LET index == mig.affected[pos]
                has_dummy == RevertRecreates(indexes, index)
                cleared == IF indexes[index].exists THEN IndexDelete(indexes, index)
                           ELSE indexes
            IN /\ outcome = "create" => has_dummy /\ ~mig.dry
               /\ IF outcome = "ok" /\ (~has_dummy \/ mig.dry)
                  THEN /\ pos' = pos + 1
                       /\ UNCHANGED <<pc, scanned, batch, ops, indexes, obs>>
                  ELSE IF outcome = "ok" /\ mig.settings[index].present
                  THEN /\ indexes' = IndexCreate(cleared, index, mig.settings[index])
                       /\ obs' = [obs EXCEPT !.mutated = TRUE, !.orig_deleted = TRUE]
                       /\ pos' = pos + 1
                       /\ UNCHANGED <<pc, scanned, batch, ops>>
                  ELSE /\ indexes' = IF outcome = "before" THEN indexes ELSE cleared
                       /\ RevertFailed
    /\ UNCHANGED <<templates, history, files, mig, fail_state, ncmd, nrun, bw, reg, trial, cleanup, det>>

\* RevertCopies with the test of the dry flag inverted.
RevertCopiesDryInverted ==
    /\ mig.dry
    /\ indexes[get_dummy_index(mig.affected[pos])].exists

\* Whether the second loop of revert_indexes_migration copies from the dummy
\* of the index at the current position.
RevertCopies ==
    /\ ~mig.dry
    /\ indexes[get_dummy_index(mig.affected[pos])].exists

\* revert_indexes_migration, second loop: one document scanned from a dummy
\* and added to the batch under the name of the original index.
revert_copy_add(d, out) ==
    /\ pc = "revert_copy"
    /\ pos <= Len(mig.affected)
    /\ RevertCopies
    /\ d \in Remaining(get_dummy_index(mig.affected[pos]))
    /\ LET added == Append(batch, CopyAction(mig.affected[pos], d))
       IN /\ out.kind = "flush_fail" => BatchFull(added) /\ out.keep \subseteq 1..Len(added)
          /\ IF out.kind = "ok"
             THEN /\ indexes' = IF BatchFull(added) THEN Flush(indexes, added, out)
                                ELSE indexes
                  /\ batch' = IF BatchFull(added) THEN <<>> ELSE added
                  /\ scanned' = scanned \cup {KeyOf(d)}
                  /\ obs' = [obs EXCEPT !.mutated = @ \/ BatchFull(added)]
                  /\ UNCHANGED <<pc, pos, ops>>
             ELSE /\ indexes' = IF out.kind = "flush_fail" THEN Flush(indexes, added, out)
                                ELSE indexes
                  /\ RevertFailed
    /\ UNCHANGED <<templates, history, files, mig, fail_state, ncmd, nrun, bw, reg, trial, cleanup, det>>

\* revert_indexes_migration, second loop: an index without a dummy is
\* skipped, or the scan of a dummy is exhausted.
revert_copy_next ==
    /\ pc = "revert_copy"
    /\ pos <= Len(mig.affected)
    /\ RevertCopies => Remaining(get_dummy_index(mig.affected[pos])) = {}
    /\ pos' = pos + 1
    /\ scanned' = {}
    /\ UNCHANGED <<indexes, templates, history, files, mig, pc, fail_state, batch,
                   ops, obs, ncmd, nrun, bw, reg, trial, cleanup, det>>

\* revert_indexes_migration: the with block ends and Batch.__exit__ flushes;
\* without an error remove_dummy_indexes follows.
revert_copy_exit(out) ==
    /\ pc = "revert_copy"
    /\ pos > Len(mig.affected)
    /\ out.kind # "scan_fail"
    /\ out.kind = "flush_fail" => batch # <<>> /\ out.keep \subseteq 1..Len(batch)
    /\ indexes' = Flush(indexes, batch, out)
    /\ IF out.kind = "ok"
       THEN /\ obs' = [obs EXCEPT !.mutated = @ \/ batch # <<>>]
            /\ Goto("remove_dummy_indexes")
       ELSE RevertFailed
    /\ UNCHANGED <<templates, history, files, mig, fail_state, ncmd, nrun, bw, reg, trial, cleanup, det>>

(***************************************************************************)
(* The restore commands of the command line.                               *)
(***************************************************************************)
\* The last run as the observer remembers it when a restore command starts.
LastRun ==
    IF mig.cmd = "run"
    THEN [stamp |-> mig.stamp, pre |-> obs.pre, revert_failed |-> obs.revert_failed]
    ELSE obs.last_run

\* The option sets of restore_indexes: (dry, keep_dummies).
RestoreOptionSets == {<<FALSE, FALSE>>, <<TRUE, FALSE>>, <<FALSE, TRUE>>}

\* cli.restore_indexes: the affected indexes are loaded from the recovery
\* file of run `stamp`, their settings are read from the dummies, and
\* revert_indexes_migration is run.  ~ok: the store fails while the settings
\* are read and the command ends with the error.
restore_indexes(stamp, opt, ok) ==
    /\ pc = "idle"
    /\ ncmd < MaxCommands
    /\ files[stamp].indexes.written
    /\ LET affected == files[stamp].indexes.data
       IN mig' = [NewMigrates("restore_indexes", opt[1], opt[2], TRUE, ncmd + 1)
                     EXCEPT !.args = <<stamp>>,
                            !.affected = affected,
                            !.settings =
                                IF ok
                                THEN get_index_settings(indexes,
                                         {affected[i] : i \in 1..Len(affected)}, TRUE)
                                ELSE NoIndexSettings]
    /\ obs' = [NewObs(indexes, templates, history)
                 EXCEPT !.crashed = ~ok, !.last_run = LastRun]
    /\ ncmd' = ncmd + 1
    /\ UNCHANGED <<nrun, bw, reg, trial, cleanup, det>>
    /\ fail_state' = "none"
    /\ Goto(IF ok THEN "revert_indexes_migration" ELSE "idle")
    /\ UNCHANGED <<indexes, templates, history, files>>

\* cli.restore_history: the history actions are loaded from the recovery file
\* of run `stamp` and handed to write_migration_history.
restore_history(stamp, dry, tplOk, out) ==
    /\ pc = "idle"
    /\ ncmd < MaxCommands
    /\ files[stamp].migrations.written
    /\ out \in HistoryOutcomes(Len(files[stamp].migrations.data))
    /\ dry => out.kind = "ok"
    /\ LET m == [NewMigrates("restore_history", dry, FALSE, TRUE, ncmd + 1)
                    EXCEPT !.args = <<stamp>>]
           r == write_migration_history(m, files[stamp].migrations.data, tplOk, out)
       IN /\ mig' = m
          /\ templates' = r.templates
          /\ history' = r.history
          /\ obs' = [NewObs(indexes, templates, history)
                        EXCEPT !.mutated = r.mutated, !.crashed = r.raised,
                               !.last_run = LastRun]
    /\ ncmd' = ncmd + 1
    /\ UNCHANGED <<nrun, bw, reg, trial, cleanup, det>>
    /\ fail_state' = "none"
    /\ Goto("idle")
    /\ UNCHANGED <<indexes, files>>

(***************************************************************************)
(* The specification.                                                      *)
(***************************************************************************)
FlowOutcomes == {"ok", "before", "create"}

Next ==
    \/ \E args \in ArgLists, opt \in OptionSets : run(TRUE, args, <<>>, opt)
    \/ \E order \in RegistryOrders, opt \in OptionSets : run(FALSE, <<>>, order, opt)
    \/ \E order \in RegistryOrders, opt \in OptionSets, ok \in BOOLEAN :
          migrate_pending(order, opt, ok)
    \/ \E ok \in BOOLEAN : get_templates(ok)
    \/ \E ok \in BOOLEAN : write_original_templates(ok)
    \/ \E ok \in BOOLEAN : write_pending_migrations(ok)
    \/ \E affected \in SeqsOf(get_affected_indexes(mig.migrations, indexes)),
          outcome \in {"ok", "early", "late"} : get_affected(affected, outcome)
    \/ transform_templates_stage
    \/ \E outcome \in FlowOutcomes : create_dummy_indexes(outcome)
    \/ \E d \in UNION {indexes[n].docs : n \in AllIndexes}, out \in Outcomes :
          populate_add(d, out)
    \/ populate_next
    \/ \E out \in Outcomes : populate_exit(out)
    \/ \E ok \in BOOLEAN : migrate_templates_step(ok)
    \/ \E ok \in BOOLEAN : remove_indexes(ok)
    \/ \E d \in UNION {indexes[n].docs : n \in AllIndexes}, out \in Outcomes :
          migrate_add(d, out)
    \/ migrate_next
    \/ \E out \in Outcomes : migrate_exit(out)
    \/ \E ok \in BOOLEAN : remove_dummies(ok)
    \/ \E tplOk \in BOOLEAN, out \in HistoryOutcomes(Len(mig.migrations)) :
          write_history(tplOk, out)
    \/ \E ok \in BOOLEAN : remove_dummy_indexes(ok)
    \/ revert_template_migration
    \/ \E ok \in BOOLEAN : revert_templates_step(ok)
    \/ \E outcome \in FlowOutcomes : revert_indexes_migration(outcome)
    \/ \E d \in UNION {indexes[n].docs : n \in AllIndexes}, out \in Outcomes :
          revert_copy_add(d, out)
    \/ revert_copy_next
    \/ \E out \in Outcomes : revert_copy_exit(out)
    \/ \E stamp \in Stamps, opt \in RestoreOptionSets, ok \in BOOLEAN :
          restore_indexes(stamp, opt, ok)
    \/ \E stamp \in Stamps, dry \in BOOLEAN, tplOk \in BOOLEAN,
          out \in HistoryOutcomes(MaxUnits + 3) :
          restore_history(stamp, dry, tplOk, out)

Spec == Init /\ [][Next]_vars

(***************************************************************************)
(* The listing of the pending migrations, over every history and every     *)
(* enumeration order of the registry.                                      *)
(***************************************************************************)
\* cli.show_migrations with --pending: the list get_pending_migrations
\* returns for the registry enumerated in `order`.
show_migrations(order) ==
    /\ pc = "idle"
    /\ ncmd < MaxCommands
    /\ mig' = [NewMigrates("migrations", FALSE, FALSE, TRUE, ncmd + 1)
                 EXCEPT !.args = order,
                        !.migrations = get_pending_migrations(order, history)]
    /\ obs' = [NewObs(indexes, templates, history) EXCEPT !.last_run = LastRun]
    /\ ncmd' = ncmd + 1
    /\ fail_state' = "none"
    /\ Goto("idle")
    /\ UNCHANGED <<indexes, templates, history, files, nrun, bw, reg, trial, cleanup, det>>

\* The histories a store may hold: any set of the registered names performed.
AllHistories == {{[name |-> n, stamp |-> 0] : n \in S} : S \in SUBSET MigrationNames}

InitPending ==
    /\ indexes = InitIndexes
    /\ templates = InitTemplates
    /\ history \in AllHistories
    /\ files = [s \in Stamps |-> NoFiles]
    /\ mig = NewMigrates("none", FALSE, FALSE, FALSE, 0)
    /\ pc = "idle"
    /\ fail_state = "none"
    /\ pos = 1
    /\ scanned = {}
    /\ batch = <<>>
    /\ ops = <<>>
    /\ obs = NewObs(indexes, templates, history)
    /\ ncmd = 0
    /\ nrun = 0
    /\ bw = NewBatch(BatchSize, IndexesSize)
    /\ reg = NewRegistry
    /\ trial = NoTrial
    /\ cleanup = NewDirectory({})
    /\ det = NoDetail

NextPending == \E order \in SeqsOf(MigrationNames) : show_migrations(order)

SpecPending == InitPending /\ [][NextPending]_vars

(***************************************************************************)
(* The Batch object on its own (batch.py): add, flush with its retries,    *)
(* and the exit of a with-block.                                           *)
(***************************************************************************)
\* The default of the parameter max_attempts of Batch.flush.
max_attempts == 3

\* The most actions a caller adds to the Batch object under study.
MaxAdds == 3

\* The sizes a Batch under study is built with.
BatchSizes == 2..3

\* The actions a caller may add: two indexes, two ids.
BatchActions ==
    {[index |-> i, type |-> typ, id |-> k, source |-> 0] : i \in {ta, tb}, k \in 1..2}

\* The condition of Batch.add, with > where the code has >=.
add_flushes_strict(actions, idxs, size, indexes_size) ==
    Len(actions) > size \/ Cardinality(idxs) > indexes_size

\* The condition under which Batch.add flushes, after the append.
add_flushes(actions, idxs, size, indexes_size) ==
    Len(actions) >= size \/ Cardinality(idxs) >= indexes_size

\* The end of Batch.flush, clearing only when the first bulk call succeeded.
flush_end_first_only(b) ==
    IF b.attempts = 0 THEN [b EXCEPT !.indexes = {}, !.actions = <<>>] ELSE b

\* The end of the outermost Batch.flush: the indexes and actions are reset.
flush_end(b) == [b EXCEPT !.indexes = {}, !.actions = <<>>]

\* Batch.__exit__ flushing whatever the exception.
exit_flushes_always(exception_value) == TRUE

\* Whether Batch.__exit__ flushes: only when no exception left the block.
exit_flushes(exception_value) == exception_value = FALSE

\* Where a Batch goes when a flush ends without an error.
AfterFlush(b) ==
    [b EXCEPT !.state = IF b.exiting THEN "closed" ELSE "open"]

\* The entry of Batch.flush(attempts=0) on the Batch b: with no actions the
\* bulk API is not called and the flush ends at once.
flush(b) ==
    IF b.actions # <<>>
    THEN [b EXCEPT !.state = "flushing", !.attempts = 0, !.flush_calls = 0]
    ELSE AfterFlush([flush_end(b) EXCEPT !.attempts = 0, !.flush_calls = 0])

\* Batch.add(action): append, note the index, flush when a size is reached.
batch_add(action) ==
    /\ bw.state = "open"
    /\ Len(bw.added) < MaxAdds
    /\ LET appended == [bw EXCEPT !.actions = Append(@, action),
                                  !.indexes = @ \cup {action.index},
                                  !.added = Append(@, action)]
           flushed == add_flushes(appended.actions, appended.indexes,
                                  appended.size, appended.indexes_size)
           noted == [appended EXCEPT !.last_add =
                        [after |-> appended.actions, flushed |-> flushed]]
       IN bw' = IF flushed THEN flush(noted) ELSE noted
    /\ UNCHANGED <<indexes, templates, history, files, mig, pc, fail_state, pos,
                   scanned, batch, ops, obs, ncmd, nrun, reg, trial, cleanup, det>>

\* Batch.flush() called by the user of the Batch.
batch_flush ==
    /\ bw.state = "open"
    /\ bw' = flush(bw)
    /\ UNCHANGED <<indexes, templates, history, files, mig, pc, fail_state, pos,
                   scanned, batch, ops, obs, ncmd, nrun, reg, trial, cleanup, det>>

\* One call of the bulk API inside Batch.flush.  ok: the call succeeds and
\* the flush, with every flush that called it, ends.  Otherwise the call
\* raises BulkIndexError: the flush calls itself with one more attempt while
\* attempts < max_attempts, and raises the error past every level if not, so
\* that the outermost level resets nothing.
batch_bulk(ok) ==
    /\ bw.state = "flushing"
    /\ LET called == [bw EXCEPT !.calls = Append(@, [actions |-> bw.actions, ok |-> ok]),
                                !.flush_calls = @ + 1]
       IN bw' = IF ok THEN AfterFlush(flush_end(called))
                ELSE IF called.attempts < max_attempts
                     THEN [called EXCEPT !.attempts = @ + 1]
                     ELSE [called EXCEPT !.state = "raised", !.raised = TRUE]
    /\ UNCHANGED <<indexes, templates, history, files, mig, pc, fail_state, pos,
                   scanned, batch, ops, obs, ncmd, nrun, reg, trial, cleanup, det>>

\* Batch.__exit__: the with-block ends, with the exception of a flush that
\* raised inside it, with an exception of the block's own code, or without.
batch_exit(exception_value) ==
    /\ bw.state \in {"open", "raised"}
    /\ ~bw.exiting
    /\ bw.state = "raised" => exception_value
    /\ LET noted == [bw EXCEPT !.exiting = TRUE,
                               !.exit = [done |-> TRUE, exc |-> exception_value,
                                         actions |-> bw.actions, calls |-> Len(bw.calls)]]
       IN bw' = IF exit_flushes(exception_value) THEN flush(noted)
                ELSE [noted EXCEPT !.state = "closed"]
    /\ UNCHANGED <<indexes, templates, history, files, mig, pc, fail_state, pos,
                   scanned, batch, ops, obs, ncmd, nrun, reg, trial, cleanup, det>>

InitBatch ==
    /\ indexes = InitIndexes
    /\ templates = InitTemplates
    /\ history = {}
    /\ files = [s \in Stamps |-> NoFiles]
    /\ mig = NewMigrates("none", FALSE, FALSE, FALSE, 0)
    /\ pc = "idle"
    /\ fail_state = "none"
    /\ pos = 1
    /\ scanned = {}
    /\ batch = <<>>
    /\ ops = <<>>
    /\ obs = NewObs(indexes, templates, history)
    /\ ncmd = 0
    /\ nrun = 0
    /\ \E size \in BatchSizes, indexes_size \in BatchSizes :
           bw = NewBatch(size, indexes_size)
    /\ reg = NewRegistry
    /\ trial = NoTrial
    /\ cleanup = NewDirectory({})
    /\ det = NoDetail

NextBatch ==
    \/ \E action \in BatchActions : batch_add(action)
    \/ batch_flush
    \/ \E ok \in BOOLEAN : batch_bulk(ok)
    \/ \E exception_value \in BOOLEAN : batch_exit(exception_value)

SpecBatch == InitBatch /\ [][NextBatch]_vars

(***************************************************************************)
(* The registry on its own: Migrates.add.                                  *)
(***************************************************************************)
\* The most calls of Migrates.add made on the registry under study.
MaxRegistrations == 3

\* The units offered to add: a plain name and a name with a slash, internal
\* or not, and two targets to tell units of one name apart.
UnitNames == {<<"m">>, <<"r", "/", "t">>}
Units == [name : UnitNames, internal : BOOLEAN, target : 1..2]

\* '/' in name.
HasSlash(name) == \E i \in 1..Len(name) : name[i] = "/"

\* The conditions of Migrates.add, the slash refused to internal units too.
add_raises_any_slash(registered, migration) ==
    \/ migration.name \in DOMAIN registered
    \/ HasSlash(migration.name)

\* Whether Migrates.add raises KeyError for `migration`, given the registry.
add_raises(registered, migration) ==
    \/ migration.name \in DOMAIN registered
    \/ HasSlash(migration.name) /\ ~migration.internal

\* Migrates.add(migration).
add(migration) ==
    /\ Len(reg.calls) < MaxRegistrations
    /\ LET raised == add_raises(reg.registry, migration)
       IN reg' = [registry |-> IF raised THEN reg.registry
                               ELSE [n \in DOMAIN reg.registry \cup {migration.name} |->
                                       IF n = migration.name THEN migration
                                       ELSE reg.registry[n]],
                  calls |-> Append(reg.calls, [migration |-> migration, raised |-> raised]),
                  before |-> reg.registry]
    /\ UNCHANGED <<indexes, templates, history, files, mig, pc, fail_state, pos,
                   scanned, batch, ops, obs, ncmd, nrun, bw, trial, cleanup, det>>

InitRegistry ==
    /\ indexes = InitIndexes
    /\ templates = InitTemplates
    /\ history = {}
    /\ files = [s \in Stamps |-> NoFiles]
    /\ mig = NewMigrates("none", FALSE, FALSE, FALSE, 0)
    /\ pc = "idle"
    /\ fail_state = "none"
    /\ pos = 1
    /\ scanned = {}
    /\ batch = <<>>
    /\ ops = <<>>
    /\ obs = NewObs(indexes, templates, history)
    /\ ncmd = 0
    /\ nrun = 0
    /\ bw = NewBatch(BatchSize, IndexesSize)
    /\ reg = NewRegistry
    /\ trial = NoTrial
    /\ cleanup = NewDirectory({})
    /\ det = NoDetail

NextRegistry == \E migration \in Units : add(migration)

SpecRegistry == InitRegistry /\ [][NextRegistry]_vars

(***************************************************************************)
(* Two units run one after the other and then together, from the same      *)
(* store, as test_sequence.py does.  Every store call succeeds; a run ends *)
(* in failure only when a transform makes it.                              *)
(***************************************************************************)
\* Migrates.migrate(migrations) called with a list of registered units, as
\* the library allows.
migrate(names) ==
    /\ pc = "idle"
    /\ fail_state = "none"
    /\ trial.step \in {1, 2, 4}
    /\ names = CASE trial.step = 1 -> <<trial.first>>
                 [] trial.step = 2 -> <<trial.second>>
                 [] OTHER -> <<trial.first, trial.second>>
    /\ LET argument == ListArgument([i \in 1..Len(names) |-> registry[names[i]]])
       IN /\ mig' = [NewMigrates("migrate", FALSE, FALSE, TRUE, trial.built)
                        EXCEPT !.explicit = TRUE, !.args = names,
                               !.migrations = resolve_migrations(argument, <<>>, history)]
          /\ obs' = [NewObs(indexes, templates, history) EXCEPT !.given = names]
          /\ IF bails_out(argument) THEN Goto("idle") ELSE Goto("get_templates")
    /\ ncmd' = ncmd + 1
    /\ trial' = [trial EXCEPT !.step = @ + 1]
    /\ UNCHANGED <<indexes, templates, history, files, fail_state, nrun, bw, reg, cleanup, det>>

\* The test data are removed and inserted again: the store is as it was at
\* the start; the documents and templates of the two runs are remembered.
reinsert_test_data ==
    /\ pc = "idle"
    /\ fail_state = "none"
    /\ trial.step = 3
    /\ trial' = [trial EXCEPT !.step = 4,
                              !.docs = [n \in UserIndexes |-> indexes[n].docs],
                              !.templates = templates]
    /\ indexes' = InitIndexes
    /\ templates' = InitTemplates
    /\ history' = {}
    /\ files' = [s \in Stamps |-> NoFiles]
    /\ ncmd' = 0
    /\ UNCHANGED <<mig, pc, fail_state, pos, scanned, batch, ops, obs, nrun, bw, reg, cleanup, det>>

InitSequence ==
    /\ indexes = InitIndexes
    /\ templates = InitTemplates
    /\ history = {}
    /\ files = [s \in Stamps |-> NoFiles]
    /\ mig = NewMigrates("none", FALSE, FALSE, FALSE, 0)
    /\ pc = "idle"
    /\ fail_state = "none"
    /\ pos = 1
    /\ scanned = {}
    /\ batch = <<>>
    /\ ops = <<>>
    /\ obs = NewObs(indexes, templates, history)
    /\ ncmd = 0
    /\ nrun = 0
    /\ bw = NewBatch(BatchSize, IndexesSize)
    /\ reg = NewRegistry
    /\ \E first, second \in MigrationNames :
           /\ first # second
           /\ trial = [NoTrial EXCEPT !.step = 1, !.first = first, !.second = second,
                                     !.built = 1]
    /\ cleanup = NewDirectory({})
    /\ det = NoDetail

Done == [kind |-> "ok", keep |-> {}]

NextSequence ==
    \/ \E names \in ArgLists : migrate(names)
    \/ reinsert_test_data
    \/ get_templates(TRUE)
    \/ write_original_templates(TRUE)
    \/ write_pending_migrations(TRUE)
    \/ \E affected \in SeqsOf(get_affected_indexes(mig.migrations, indexes)) :
          get_affected(affected, "ok")
    \/ transform_templates_stage
    \/ create_dummy_indexes("ok")
    \/ \E d \in UNION {indexes[n].docs : n \in AllIndexes} : populate_add(d, Done)
    \/ populate_next
    \/ populate_exit(Done)
    \/ migrate_templates_step(TRUE)
    \/ remove_indexes(TRUE)
    \/ \E d \in UNION {indexes[n].docs : n \in AllIndexes} : migrate_add(d, Done)
    \/ migrate_next
    \/ migrate_exit(Done)
    \/ remove_dummies(TRUE)
    \/ write_history(TRUE, [kind |-> "ok", at |-> 0, keep |-> {}])

SpecSequence == InitSequence /\ [][NextSequence]_vars

(***************************************************************************)
(* The command `reindex`.                                                  *)
(***************************************************************************)
\* '=>' in index, and the place of the first one.
HasArrow(arg) == \E i \in 1..(Len(arg) - 1) : arg[i] = "=" /\ arg[i + 1] = ">"
ArrowAt(arg) ==
    CHOOSE i \in 1..(Len(arg) - 1) :
        /\ arg[i] = "=" /\ arg[i + 1] = ">"
        /\ \A j \in 1..(i - 1) : ~(arg[j] = "=" /\ arg[j + 1] = ">")

\* cli.reindex: index, target = index.split('=>'); without '=>' the target
\* is None.  The results of strip() are dropped, as in the code.
split_reindex(arg) ==
    IF HasArrow(arg)
    THEN [index |-> SubSeq(arg, 1, ArrowAt(arg) - 1), retarget |-> TRUE,
          target |-> SubSeq(arg, ArrowAt(arg) + 2, Len(arg))]
    ELSE [index |-> arg, retarget |-> FALSE, target |-> <<>>]

\* Migration.reindex that leaves the target out of the transform.
Migration_reindex_in_place(r) ==
    [name |-> IF r.retarget THEN <<"migrates", "reindex", r.index, r.target>>
              ELSE <<"migrates", "reindex", r.index>>,
     date |-> 0, repeat |-> TRUE, internal |-> TRUE,
     docs |-> {[ip |-> r.index, tp |-> star, fn |-> "id"]},
     tpl |-> "none", target |-> r.target]

\* Migration.reindex(index, target): an internal unit that repeats, of the
\* least date, with one transform for every type of the index: the identity,
\* or the one that sets _index to the target.  The name is the path
\* migrates/reindex/index[/target].
Migration_reindex(r) ==
    [name |-> IF r.retarget THEN <<"migrates", "reindex", r.index, r.target>>
              ELSE <<"migrates", "reindex", r.index>>,
     date |-> 0, repeat |-> TRUE, internal |-> TRUE,
     docs |-> {[ip |-> r.index, tp |-> star,
                fn |-> IF r.retarget THEN "set_index" ELSE "id"]},
     tpl |-> "none", target |-> r.target]

\* The arguments of the command: an index, and an index with a target.
ReindexArgs == {ta, tb, ta \o <<"=", ">">> \o tb}
ReindexLists == UNION {[1..n -> ReindexArgs] : n \in 0..MaxUnits}

\* cli.reindex(args): a unit is made and registered for every argument (a
\* second unit of the same name makes Migrates.add raise), the user confirms,
\* the units are handed to migrate.
reindex(args, opt, confirmed) ==
    /\ pc = "idle"
    /\ ncmd < MaxCommands
    /\ LET migrations == [i \in 1..Len(args) |-> Migration_reindex(split_reindex(args[i]))]
           raised == \E i, j \in 1..Len(args) :
                         i < j /\ migrations[i].name = migrations[j].name
           argument == ListArgument(migrations)
           goes == args # <<>> /\ ~raised /\ (confirmed \/ opt[1])
       IN /\ mig' = [NewMigrates("reindex", opt[1], opt[2], opt[3], ncmd + 1)
                        EXCEPT !.explicit = TRUE, !.args = args,
                               !.migrations = IF goes
                                              THEN resolve_migrations(argument, <<>>, history)
                                              ELSE <<>>]
          /\ obs' = [NewObs(indexes, templates, history) EXCEPT !.crashed = raised]
          /\ IF goes /\ ~bails_out(argument) THEN Goto("get_templates") ELSE Goto("idle")
    /\ ncmd' = ncmd + 1
    /\ fail_state' = "none"
    /\ UNCHANGED <<indexes, templates, history, files, nrun, bw, reg, trial, cleanup, det>>

\* The stores the command starts from: the first index with its documents,
\* the second absent, the dummy of the first left over by an earlier run or not.
InitReindex ==
    /\ \E left_over \in BOOLEAN :
           indexes = [InitIndexes EXCEPT
                         ![tb] = NoIndex,
                         ![get_dummy_index(ta)] =
                             IF left_over THEN [InitIndexes[ta] EXCEPT !.docs = DocsB]
                             ELSE NoIndex]
    /\ templates = InitTemplates
    /\ history = {}
    /\ files = [s \in Stamps |-> NoFiles]
    /\ mig = NewMigrates("none", FALSE, FALSE, FALSE, 0)
    /\ pc = "idle"
    /\ fail_state = "none"
    /\ pos = 1
    /\ scanned = {}
    /\ batch = <<>>
    /\ ops = <<>>
    /\ obs = NewObs(indexes, templates, history)
    /\ ncmd = 0
    /\ nrun = 0
    /\ bw = NewBatch(BatchSize, IndexesSize)
    /\ reg = NewRegistry
    /\ trial = NoTrial
    /\ cleanup = NewDirectory({})
    /\ det = NoDetail

\* The command and the stages of migrate; no store call fails but the
\* removal of the dummies, whose error migrate logs and passes over.
NextReindex ==
    \/ \E args \in ReindexLists, opt \in OptionSets, confirmed \in BOOLEAN :
          reindex(args, opt, confirmed)
    \/ get_templates(TRUE)
    \/ write_original_templates(TRUE)
    \/ write_pending_migrations(TRUE)
    \/ \E affected \in SeqsOf(get_affected_indexes(mig.migrations, indexes)) :
          get_affected(affected, "ok")
    \/ transform_templates_stage
    \/ create_dummy_indexes("ok")
    \/ \E d \in UNION {indexes[n].docs : n \in AllIndexes} : populate_add(d, Done)
    \/ populate_next
    \/ populate_exit(Done)
    \/ migrate_templates_step(TRUE)
    \/ remove_indexes(TRUE)
    \/ \E d \in UNION {indexes[n].docs : n \in AllIndexes} : migrate_add(d, Done)
    \/ migrate_next
    \/ migrate_exit(Done)
    \/ \E ok \in BOOLEAN : remove_dummies(ok)
    \/ write_history(TRUE, [kind |-> "ok", at |-> 0, keep |-> {}])

SpecReindex == InitReindex /\ [][NextReindex]_vars

(***************************************************************************)
(* The command `restore_templates`.                                        *)
(***************************************************************************)
\* Migration.set_templates(templates): an internal unit that repeats, of the
\* least date, whose template transform returns the templates given whatever
\* it receives; it has no document transform.
Migration_set_templates(loaded) ==
    [name |-> "migrates/set_templates", date |-> 0, repeat |-> TRUE, internal |-> TRUE,
     docs |-> {}, tpl |-> "set", loaded |-> loaded]

\* cli.restore_templates: the templates are loaded from the recovery file of
\* run `stamp`, the user confirms, and the unit made of them is handed to
\* migrate by a Migrates object built from the options of the command line.
restore_templates(stamp, opt, confirmed) ==
    /\ pc = "idle"
    /\ ncmd < MaxCommands
    /\ files[stamp].templates.written
    /\ LET migration == Migration_set_templates(files[stamp].templates.data)
           argument == ListArgument(<<migration>>)
           goes == confirmed \/ opt[1]
       IN /\ mig' = [NewMigrates("restore_templates", opt[1], opt[2], opt[3], ncmd + 1)
                        EXCEPT !.explicit = TRUE, !.args = <<stamp>>,
                               !.migrations = IF goes
                                              THEN resolve_migrations(argument, <<>>, history)
                                              ELSE <<>>]
          /\ obs' = [NewObs(indexes, templates, history) EXCEPT !.last_run = LastRun]
          /\ IF goes /\ ~bails_out(argument) THEN Goto("get_templates") ELSE Goto("idle")
    /\ ncmd' = ncmd + 1
    /\ fail_state' = "none"
    /\ UNCHANGED <<indexes, templates, history, files, nrun, bw, reg, trial, cleanup, det>>

\* The template catalogs a store or a recovery file may hold.
Catalogs ==
    {[n \in TplNames |-> IF n = "T1" THEN a ELSE IF n = "T2" THEN b ELSE h] :
        a \in 0..2, b \in 0..1, h \in {0, HistoryTemplateBody}}

\* The states the command starts from: an earlier run has left the recovery
\* file of its original templates and its history record, and the catalog of
\* the store is any.
InitRestoreTemplates ==
    /\ indexes = InitIndexes
    /\ templates \in Catalogs
    /\ history \in {{}, {[name |-> "m1", stamp |-> 1]}}
    /\ \E loaded \in Catalogs :
           files = [s \in Stamps |->
                       IF s = 1 THEN [NoFiles EXCEPT !.templates =
                                         [written |-> TRUE, data |-> loaded]]
                       ELSE NoFiles]
    /\ mig = NewMigrates("none", FALSE, FALSE, FALSE, 0)
    /\ pc = "idle"
    /\ fail_state = "none"
    /\ pos = 1
    /\ scanned = {}
    /\ batch = <<>>
    /\ ops = <<>>
    /\ obs = NewObs(indexes, templates, history)
    /\ ncmd = 1
    /\ nrun = 1
    /\ bw = NewBatch(BatchSize, IndexesSize)
    /\ reg = NewRegistry
    /\ trial = NoTrial
    /\ cleanup = NewDirectory({})
    /\ det = NoDetail

\* The command and the stages of migrate it goes through; no store call
\* fails but the put of the history template, whose error is passed over.
NextRestoreTemplates ==
    \/ \E stamp \in Stamps, opt \in OptionSets, confirmed \in BOOLEAN :
          restore_templates(stamp, opt, confirmed)
    \/ get_templates(TRUE)
    \/ write_original_templates(TRUE)
    \/ write_pending_migrations(TRUE)
    \/ get_affected(<<>>, "ok")
    \/ transform_templates_stage
    \/ migrate_templates_step(TRUE)
    \/ remove_dummies(TRUE)
    \/ \E tplOk \in BOOLEAN : write_history(tplOk, [kind |-> "ok", at |-> 0, keep |-> {}])

SpecRestoreTemplates == InitRestoreTemplates /\ [][NextRestoreTemplates]_vars

(***************************************************************************)
(* The command `restore_cleanup` over a recovery directory.                *)
(***************************************************************************)
\* The most --keep-files given to the command under study.
MaxKeepFiles == 2

\* The stamps in file names, two digits standing for the fourteen of
\* strftime('%Y%m%d%H%M%S'), and the instant strptime reads from one.
StampTexts == {<<0, 9>>, <<1, 0>>, <<1, 1>>}
strptime(text) == text[1] * 10 + text[2]

\* The names a directory may hold: migrates.<kind>.<stamp>.json for the three
\* kinds of recovery file, and names of kind "other" the pattern does not match.
RecoveryKinds == {"indexes", "templates", "migrations"}
FileNames == [kind : RecoveryKinds \cup {"other"}, stamp : StampTexts]

\* Comparison of two paths of one kind as strings: by the first digit that
\* differs.
PathLess(a, b) ==
    \/ a.stamp[1] < b.stamp[1]
    \/ a.stamp[1] = b.stamp[1] /\ a.stamp[2] < b.stamp[2]

\* The names sorted in ascending order: sort() without reverse=True.
RECURSIVE sort_ascending(_)
sort_ascending(names) ==
    IF names = {} THEN <<>>
    ELSE LET least == CHOOSE x \in names : \A y \in names : ~PathLess(y, x)
         IN <<least>> \o sort_ascending(names \ {least})

\* old_files[key].sort(reverse=True)
RECURSIVE sort_reverse(_)
sort_reverse(names) ==
    IF names = {} THEN <<>>
    ELSE LET greatest == CHOOSE x \in names : \A y \in names : ~PathLess(x, y)
         IN <<greatest>> \o sort_reverse(names \ {greatest})

\* The files of kind `key` that restore_cleanup hands to cleanup_file: those
\* older than the cutoff (all of them without a cutoff, older_than = 0), less,
\* when fewer than keep_files are not old, the first of them in reverse order.
cleanup_files(dir, key, older_than, keep_files) ==
    LET matched == {f \in dir : f.kind = key /\ key \in RecoveryKinds}
        old_files == {f \in matched : older_than = 0 \/ strptime(f.stamp) < older_than}
        not_old == Cardinality(matched \ old_files)
        sorted == sort_reverse(old_files)
    IN IF not_old < keep_files
       THEN {sorted[i] : i \in (keep_files - not_old + 1)..Len(sorted)}
       ELSE old_files

\* cli.restore_cleanup: the user confirms, the directory is listed, and the
\* old files of each kind are removed, or only logged with --dry.
restore_cleanup(older_than, keep_files, dry, confirmed) ==
    /\ ~cleanup.call.done
    /\ LET removed == UNION {cleanup_files(cleanup.dir, key, older_than, keep_files) :
                                key \in RecoveryKinds \cup {"other"}}
       IN cleanup' = [dir |-> IF (confirmed \/ dry) /\ ~dry
                              THEN cleanup.dir \ removed ELSE cleanup.dir,
                      before |-> cleanup.dir,
                      call |-> [done |-> TRUE, older_than |-> older_than,
                                keep_files |-> keep_files, dry |-> dry]]
    /\ UNCHANGED <<indexes, templates, history, files, mig, pc, fail_state, pos,
                   scanned, batch, ops, obs, ncmd, nrun, bw, reg, trial, det>>

InitCleanup ==
    /\ indexes = InitIndexes
    /\ templates = InitTemplates
    /\ history = {}
    /\ files = [s \in Stamps |-> NoFiles]
    /\ mig = NewMigrates("none", FALSE, FALSE, FALSE, 0)
    /\ pc = "idle"
    /\ fail_state = "none"
    /\ pos = 1
    /\ scanned = {}
    /\ batch = <<>>
    /\ ops = <<>>
    /\ obs = NewObs(indexes, templates, history)
    /\ ncmd = 0
    /\ nrun = 0
    /\ bw = NewBatch(BatchSize, IndexesSize)
    /\ reg = NewRegistry
    /\ trial = NoTrial
    /\ \E names \in SUBSET FileNames : cleanup = NewDirectory(names)
    /\ det = NoDetail

NextCleanup ==
    \E older_than \in {0} \cup 9..12, keep_files \in 0..MaxKeepFiles,
       dry \in BOOLEAN, confirmed \in BOOLEAN :
        restore_cleanup(older_than, keep_files, dry, confirmed)

SpecCleanup == InitCleanup /\ [][NextCleanup]_vars

(***************************************************************************)
(* The recorder of detail.py, driven as migrate_indexes drives it: pre,    *)
(* then for each unit touch and the unit's transform (which returns a      *)
(* document, returns None or raises), then post.                           *)
(***************************************************************************)
MaxDocuments == 3

\* MigratesIndexDetail.pre
pre(self, document) ==
    LET noted == [self EXCEPT !.document_index = document.index,
                              !.document_type = document.type,
                              !.index_touched[document.index] = @ + 1]
    IN IF self.detail /\ document.type \notin self.shown_doc_types[document.index]
       THEN [noted EXCEPT !.document = document, !.document_detail = TRUE]
       ELSE noted

\* MigratesIndexDetail.touch
touch(self, migration) ==
    [self EXCEPT !.document_touched_by = IF self.detail THEN @ \cup {migration} ELSE @,
                 !.migration_touched[migration] = @ + 1]

\* MigratesIndexDetail.delete
delete(self, migration) ==
    [self EXCEPT !.document_deleted_by = migration,
                 !.index_deleted[self.document_index] = @ + 1,
                 !.migration_deleted[migration] = @ + 1]

\* MigratesIndexDetail.error
error(self, migration) ==
    [self EXCEPT !.document_errored_by = migration,
                 !.migration_errors[migration] = @ + 1,
                 !.document_exceptions[<<self.document_index, self.document_type>>] = @ + 1]

\* What post logs: the units that touched the captured document, then the
\* error note (which names document_deleted_by), the deletion note or the
\* original and the migrated document.
LoggedAtPost(self, document) ==
    LET line(kind, named, by, after) ==
            [kind |-> kind, index |-> self.document.index, type |-> self.document.type,
             id |-> self.document.id, named |-> named, by |-> by, after |-> after]
    IN <<line("touched", "none", self.document_touched_by, NoDocument),
         IF self.document_errored_by # "none"
         THEN line("errored", self.document_deleted_by, {}, NoDocument)
         ELSE IF self.document_deleted_by # "none"
         THEN line("deleted", self.document_deleted_by, {}, NoDocument)
         ELSE line("diff", "none", {}, document)>>

\* post without the note that the type of the index was shown.
post_never_shown(self, document) ==
    IF ~self.document_detail THEN self
    ELSE [self EXCEPT !.logger = @ \o LoggedAtPost(self, document),
                      !.document = NoDocument,
                      !.document_index = <<>>,
                      !.document_detail = FALSE,
                      !.document_touched_by = {},
                      !.document_deleted_by = "none",
                      !.document_errored_by = "none"]

\* MigratesIndexDetail.post
post(self, document) ==
    IF ~self.document_detail THEN self
    ELSE [self EXCEPT !.logger = @ \o LoggedAtPost(self, document),
                      !.shown_doc_types[self.document_index] = @ \cup {self.document_type},
                      !.document = NoDocument,
                      !.document_index = <<>>,
                      !.document_detail = FALSE,
                      !.document_touched_by = {},
                      !.document_deleted_by = "none",
                      !.document_errored_by = "none"]

\* migrate_indexes: the scan yields the next document and detail.pre is called.
detail_pre(index, type) ==
    /\ det.at = "scan"
    /\ det.ndocs < MaxDocuments
    /\ LET document == [index |-> index, type |-> type, id |-> det.ndocs + 1]
       IN det' = [det EXCEPT !.self = pre(@, document),
                             !.document = document,
                             !.unit = 1,
                             !.at = "units",
                             !.ndocs = @ + 1,
                             !.deleted = FALSE,
                             !.errored = FALSE]
    /\ UNCHANGED <<indexes, templates, history, files, mig, pc, fail_state, pos,
                   scanned, batch, ops, obs, ncmd, nrun, bw, reg, trial, cleanup>>

\* migrate_indexes: detail.touch, then the transform of the unit: it returns a
\* document (the next unit follows), returns None (detail.delete, break) or
\* raises (detail.error; break on a dry run, else the exception leaves the loop).
detail_transform(outcome) ==
    /\ det.at = "units"
    /\ LET migration == DetailUnits[det.unit]
           touched == touch(det.self, migration)
       IN CASE outcome = "raise" ->
                 det' = [det EXCEPT !.self = error(touched, migration),
                                    !.errored = TRUE,
                                    !.at = IF det.dry THEN "post" ELSE "raised"]
            [] outcome = "none" ->
                 det' = [det EXCEPT !.self = delete(touched, migration),
                                    !.deleted = TRUE,
                                    !.document = NoDocument,
                                    !.at = "post"]
            [] OTHER ->
                 det' = [det EXCEPT !.self = touched,
                                    !.unit = @ + 1,
                                    !.at = IF det.unit = Len(DetailUnits)
                                           THEN "post" ELSE "units"]
    /\ UNCHANGED <<indexes, templates, history, files, mig, pc, fail_state, pos,
                   scanned, batch, ops, obs, ncmd, nrun, bw, reg, trial, cleanup>>

\* migrate_indexes: detail.post(document)
detail_post ==
    /\ det.at = "post"
    /\ det' = [det EXCEPT !.self = post(@, det.document), !.at = "scan"]
    /\ UNCHANGED <<indexes, templates, history, files, mig, pc, fail_state, pos,
                   scanned, batch, ops, obs, ncmd, nrun, bw, reg, trial, cleanup>>

InitDetail ==
    /\ indexes = InitIndexes
    /\ templates = InitTemplates
    /\ history = {}
    /\ files = [s \in Stamps |-> NoFiles]
    /\ mig = NewMigrates("none", FALSE, FALSE, FALSE, 0)
    /\ pc = "idle"
    /\ fail_state = "none"
    /\ pos = 1
    /\ scanned = {}
    /\ batch = <<>>
    /\ ops = <<>>
    /\ obs = NewObs(indexes, templates, history)
    /\ ncmd = 0
    /\ nrun = 0
    /\ bw = NewBatch(BatchSize, IndexesSize)
    /\ reg = NewRegistry
    /\ trial = NoTrial
    /\ cleanup = NewDirectory({})
    /\ \E detail \in BOOLEAN, dry \in BOOLEAN : det = NewDetailLoop(detail, dry)

NextDetail ==
    \/ \E index \in UserIndexes, type \in DocTypes : detail_pre(index, type)
    \/ \E outcome \in {"document", "none", "raise"} : detail_transform(outcome)
    \/ detail_post

SpecDetail == InitDetail /\ [][NextDetail]_vars

(***************************************************************************)
(* A unit whose transform returns a malformed document, run through        *)
(* Migrates.migrate alone or with registered units, as                     *)
(* test_malformed_doc_failure.py does.  No store call fails.               *)
(***************************************************************************)
\* The unit of the test: its transform deletes `_index` from the document.
migration_malformed_doc_test_0 ==
    [name |-> "mm", date |-> 1, repeat |-> FALSE, internal |-> FALSE,
     docs |-> {[ip |-> ta, tp |-> typ, fn |-> "del_index"]}, tpl |-> "none"]

\* The lists of units handed to migrate.
MalformedLists ==
    LET units == {migration_malformed_doc_test_0, registry["m1"], registry["m2"],
                  registry["m4"]}
    IN {<<u>> : u \in units} \cup {p \in units \X units : p[1] # p[2]}

\* mig.migrate(migrations)
migrate_list(migrations, dry) ==
    /\ pc = "idle"
    /\ ncmd < MaxCommands
    /\ LET argument == ListArgument(migrations)
       IN /\ mig' = [NewMigrates("migrate", dry, FALSE, TRUE, ncmd + 1)
                        EXCEPT !.explicit = TRUE,
                               !.migrations = resolve_migrations(argument, <<>>, history)]
          /\ obs' = [NewObs(indexes, templates, history)
                        EXCEPT !.given = [i \in 1..Len(migrations) |-> migrations[i].name]]
          /\ IF bails_out(argument) THEN Goto("idle") ELSE Goto("get_templates")
    /\ ncmd' = ncmd + 1
    /\ fail_state' = "none"
    /\ UNCHANGED <<indexes, templates, history, files, nrun, bw, reg, trial, cleanup, det>>

InitMalformed ==
    /\ indexes = InitIndexes
    /\ templates = InitTemplates
    /\ history = {}
    /\ files = [s \in Stamps |-> NoFiles]
    /\ mig = NewMigrates("none", FALSE, FALSE, FALSE, 0)
    /\ pc = "idle"
    /\ fail_state = "none"
    /\ pos = 1
    /\ scanned = {}
    /\ batch = <<>>
    /\ ops = <<>>
    /\ obs = NewObs(indexes, templates, history)
    /\ ncmd = 1
    /\ nrun = 0
    /\ bw = NewBatch(BatchSize, IndexesSize)
    /\ reg = NewRegistry
    /\ trial = NoTrial
    /\ cleanup = NewDirectory({})
    /\ det = NoDetail

NextMalformed ==
    \/ \E migrations \in MalformedLists, dry \in BOOLEAN : migrate_list(migrations, dry)
    \/ get_templates(TRUE)
    \/ write_original_templates(TRUE)
    \/ write_pending_migrations(TRUE)
    \/ \E affected \in SeqsOf(get_affected_indexes(mig.migrations, indexes)) :
          get_affected(affected, "ok")
    \/ transform_templates_stage
    \/ create_dummy_indexes("ok")
    \/ \E d \in UNION {indexes[n].docs : n \in AllIndexes} : populate_add(d, Done)
    \/ populate_next
    \/ populate_exit(Done)
    \/ migrate_templates_step(TRUE)
    \/ remove_indexes(TRUE)
    \/ \E d \in UNION {indexes[n].docs : n \in AllIndexes} : migrate_add(d, Done)
    \/ migrate_next
    \/ migrate_exit(Done)
    \/ remove_dummies(TRUE)
    \/ write_history(TRUE, [kind |-> "ok", at |-> 0, keep |-> {}])
    \/ revert_template_migration
    \/ revert_templates_step(TRUE)
    \/ revert_indexes_migration("ok")
    \/ \E d \in UNION {indexes[n].docs : n \in AllIndexes} : revert_copy_add(d, Done)
    \/ revert_copy_next
    \/ revert_copy_exit(Done)
    \/ remove_dummy_indexes(TRUE)

SpecMalformed == InitMalformed /\ [][NextMalformed]_vars

(***************************************************************************)
(* A sequence of runs over the same units: cli.run called again after a   *)
(* run that failed in MigrateDocuments and whose index revert failed.     *)
(***************************************************************************)
RerunLists == {<<"m1">>, <<"m4">>}

run_again ==
    /\ pc = "idle"
    /\ ncmd < MaxCommands
    /\ mig.cmd = "run"
    /\ fail_state = "MigrateDocuments"
    /\ obs.revert_failed
    /\ LET given == cli_run_migrations(TRUE, mig.args, <<>>, history)
           argument == ListArgument(given)
       IN /\ mig' = [NewMigrates("run", FALSE, FALSE, TRUE, ncmd + 1)
                        EXCEPT !.explicit = TRUE, !.args = mig.args,
                               !.migrations = resolve_migrations(argument, <<>>, history)]
          /\ obs' = [NewObs(indexes, templates, history)
                        EXCEPT !.given = [i \in 1..Len(given) |-> given[i].name],
                               !.last_run = LastRun]
          /\ IF bails_out(argument) THEN Goto("idle") ELSE Goto("get_templates")
    /\ ncmd' = ncmd + 1
    /\ nrun' = nrun + 1
    /\ fail_state' = "none"
    /\ UNCHANGED <<indexes, templates, history, files, bw, reg, trial, cleanup, det>>

InitRerun ==
    /\ indexes = InitIndexes
    /\ templates = InitTemplates
    /\ history = {}
    /\ files = [s \in Stamps |-> NoFiles]
    /\ mig = NewMigrates("none", FALSE, FALSE, FALSE, 0)
    /\ pc = "idle"
    /\ fail_state = "none"
    /\ pos = 1
    /\ scanned = {}
    /\ batch = <<>>
    /\ ops = <<>>
    /\ obs = NewObs(indexes, templates, history)
    /\ ncmd = 0
    /\ nrun = 0
    /\ bw = NewBatch(BatchSize, IndexesSize)
    /\ reg = NewRegistry
    /\ trial = NoTrial
    /\ cleanup = NewDirectory({})
    /\ det = NoDetail

NextRerun ==
    \/ \E args \in RerunLists : run(TRUE, args, <<>>, <<FALSE, FALSE, TRUE>>)
    \/ run_again
    \/ get_templates(TRUE)
    \/ write_original_templates(TRUE)
    \/ write_pending_migrations(TRUE)
    \/ \E affected \in SeqsOf(get_affected_indexes(mig.migrations, indexes)) :
          get_affected(affected, "ok")
    \/ transform_templates_stage
    \/ \E outcome \in FlowOutcomes : create_dummy_indexes(outcome)
    \/ \E d \in UNION {indexes[n].docs : n \in AllIndexes} : populate_add(d, Done)
    \/ populate_next
    \/ populate_exit(Done)
    \/ migrate_templates_step(TRUE)
    \/ remove_indexes(TRUE)
    \/ \E d \in UNION {indexes[n].docs : n \in AllIndexes}, out \in Outcomes :
          migrate_add(d, out)
    \/ migrate_next
    \/ \E out \in Outcomes : migrate_exit(out)
    \/ remove_dummies(TRUE)
    \/ write_history(TRUE, [kind |-> "ok", at |-> 0, keep |-> {}])
    \/ revert_template_migration
    \/ revert_templates_step(TRUE)
    \/ \E outcome \in FlowOutcomes : revert_indexes_migration(outcome)
    \/ \E d \in UNION {indexes[n].docs : n \in AllIndexes}, out \in Outcomes :
          revert_copy_add(d, out)
    \/ revert_copy_next
    \/ \E out \in Outcomes : revert_copy_exit(out)
    \/ remove_dummy_indexes(TRUE)

SpecRerun == InitRerun /\ [][NextRerun]_vars

(***************************************************************************)
(* Properties.                                                             *)
(***************************************************************************)
\* The (index, type, id, source) tuples of the user indexes of a store; the
\* dummies and the history index are left out.
Tuples(idx) ==
    UNION {{<<n, d.type, d.id, d.source>> : d \in idx[n].docs} : n \in UserIndexes}

IsPrefix(s, t) == Len(s) <= Len(t) /\ SubSeq(t, 1, Len(s)) = s

\* The registered names in ascending order.
NameOrder == <<"m1", "m2", "m3", "m4", "m5">>

NameRank(n) == CHOOSE i \in 1..Len(NameOrder) : NameOrder[i] = n

\* a comes no later than b in the order by (date, name).
DateNameLeq(a, b) ==
    \/ registry[a].date < registry[b].date
    \/ registry[a].date = registry[b].date /\ NameRank(a) <= NameRank(b)

RECURSIVE InsertByDateName(_, _)
InsertByDateName(sorted, n) ==
    IF sorted = <<>> THEN <<n>>
    ELSE IF DateNameLeq(Head(sorted), n)
         THEN <<Head(sorted)>> \o InsertByDateName(Tail(sorted), n)
         ELSE <<n>> \o sorted

\* A list of names sorted ascending by (date, name).
RECURSIVE SortByDateName(_)
SortByDateName(names) ==
    IF names = <<>> THEN <<>>
    ELSE InsertByDateName(SortByDateName(Tail(names)), Head(names))

\* The names of a list of units.
NamesOf(migrations) == [i \in 1..Len(migrations) |-> migrations[i].name]

\* A non-dry run has ended in the MigrateDocuments failure state and its
\* inline recovery has completed without an error.
RecoveredFromMigrateDocuments ==
    /\ mig.cmd = "run"
    /\ ~mig.dry
    /\ pc = "idle"
    /\ fail_state = "MigrateDocuments"
    /\ obs.orig_deleted
    /\ ~obs.rec_err
    /\ ~obs.crashed

\* C1: after a non-dry run that failed during MigrateDocuments and whose inline
\* recovery completed without error, the (index, type, id, source) tuples of
\* the store, dummies and history left out, are those of before the run, for
\* every list of units.
C1_DocumentsRestoredInline ==
    RecoveredFromMigrateDocuments => Tuples(indexes) = Tuples(obs.pre)

\* A restore_indexes on the recovery file of the last run, whose inline index
\* recovery had failed, has completed without an error.
RestoredIndexes ==
    /\ mig.cmd = "restore_indexes"
    /\ ~mig.dry
    /\ pc = "idle"
    /\ ~obs.rec_err
    /\ ~obs.crashed
    /\ obs.last_run.revert_failed
    /\ mig.args = <<obs.last_run.stamp>>

\* C2: when the inline index recovery of a run that failed during
\* MigrateDocuments has failed, a restore_indexes on the affected-index file
\* of that run (not dry, completing without error) leaves every listed index
\* whose dummy existed recreated with the mappings and settings of the dummy
\* and holding exactly the documents of before the run, and the dummy deleted
\* (unless keep_dummies is set).
C2_RestoreIndexesRecreates ==
    RestoredIndexes =>
        \A i \in 1..Len(mig.affected) :
            LET index == mig.affected[i]
                dummy == get_dummy_index(index)
            IN obs.pre[dummy].exists =>
                   /\ indexes[index].exists
                   /\ indexes[index].docs = obs.last_run.pre[index].docs
                   /\ indexes[index].mappings = obs.pre[dummy].mappings
                   /\ indexes[index].settings.number_of_shards =
                          obs.pre[dummy].settings.number_of_shards
                   /\ (~mig.keep_dummies => ~indexes[dummy].exists)

C2_Witness ==
    /\ RestoredIndexes
    /\ ~mig.keep_dummies
    /\ Len(mig.affected) = 2
    /\ \A i \in 1..Len(mig.affected) :
           /\ obs.pre[get_dummy_index(mig.affected[i])].exists
           /\ obs.pre[mig.affected[i]].docs # obs.last_run.pre[mig.affected[i]].docs
           /\ indexes[mig.affected[i]].docs = obs.last_run.pre[mig.affected[i]].docs

\* The states of a non-dry run, begun without left-over dummies, up to the
\* successful end of MigrateDocuments and throughout the inline recovery.
UpToMigrateDocuments ==
    /\ mig.cmd = "run"
    /\ ~mig.dry
    /\ \A n \in UserIndexes : ~obs.pre[get_dummy_index(n)].exists
    /\ pc \notin {"remove_dummies", "write_history"}
    /\ pc = "idle" => fail_state \notin {"none", "WriteHistory"}

\* C3: in every state of a non-dry run begun without left-over dummies, up to
\* the successful end of MigrateDocuments and throughout inline recovery,
\* every document an affected index held before the run is, unchanged, in the
\* index or in its dummy.
C3_NoDocumentLost ==
    UpToMigrateDocuments =>
        \A index \in get_affected_indexes(mig.migrations, obs.pre) :
            \A d \in obs.pre[index].docs :
                \/ d \in indexes[index].docs
                \/ d \in indexes[get_dummy_index(index)].docs

C3_Witness ==
    /\ UpToMigrateDocuments
    /\ pc = "revert_copy"
    /\ \E index \in get_affected_indexes(mig.migrations, obs.pre) :
           /\ obs.pre[index].docs # {}
           /\ indexes[index].docs # obs.pre[index].docs
           /\ obs.pre[index].docs \subseteq indexes[get_dummy_index(index)].docs

\* C4: in a non-dry run with affected indexes, no template is deleted or put
\* and no affected index is deleted before the dummy of every affected index
\* was created and the copy of all its documents into the dummy was flushed.
C4_CopyBeforeMutation ==
    (mig.cmd = "run" /\ ~mig.dry /\ mig.affected # <<>>) =>
        ((obs.tpl_touched \/ obs.orig_deleted) => obs.copied)

C4_Witness ==
    /\ mig.cmd = "run"
    /\ ~mig.dry
    /\ Len(mig.affected) = 2
    /\ obs.tpl_touched
    /\ obs.orig_deleted
    /\ obs.copied

\* C5: after a run that failed in the PersistTemplates state and whose inline
\* recovery completed without error, the template catalog of the store is the
\* catalog read at the start of the run.
C5_TemplatesRestored ==
    (mig.cmd = "run" /\ ~mig.dry /\ pc = "idle" /\ fail_state = "PersistTemplates"
        /\ ~obs.rec_err /\ ~obs.crashed)
    => /\ templates = mig.original_templates
       /\ templates = obs.pre_templates

C5_Witness ==
    /\ mig.cmd = "run"
    /\ ~mig.dry
    /\ pc = "idle"
    /\ fail_state = "PersistTemplates"
    /\ ~obs.rec_err
    /\ ~obs.crashed
    /\ obs.tpl_touched
    /\ mig.updated_templates # mig.original_templates
    /\ templates = mig.original_templates

\* C6: a dry run issues no mutating store operation and writes no recovery
\* file in any stage or failure path: the indexes, their documents, the
\* template catalog and the history are those of before the run.
C6_DryRunFrame ==
    (mig.cmd = "run" /\ mig.dry) =>
        /\ ~obs.mutated
        /\ ~obs.wrote_file
        /\ files[mig.stamp] = NoFiles
        /\ indexes = obs.pre
        /\ templates = obs.pre_templates
        /\ history = obs.pre_history

C6_Witness ==
    /\ mig.cmd = "run"
    /\ mig.dry
    /\ pc = "idle"
    /\ fail_state = "none"
    /\ mig.updated_templates # mig.original_templates
    /\ obs.folds >= 2

\* C7: with dry set, restore_history performs no store mutation: it writes no
\* history record and does not put the history template.
C7_DryRestoreHistoryFrame ==
    (mig.cmd = "restore_history" /\ mig.dry) =>
        /\ templates = obs.pre_templates
        /\ history = obs.pre_history

\* C8 as stated: for any list of units given to a run, the order in which
\* the units are applied, in the template fold and in the document fold of
\* every document, is the list sorted ascending by (date, name).
C8_AppliedInDateNameOrder ==
    mig.cmd = "run" =>
        /\ IsPrefix(obs.tpl_order, SortByDateName(obs.given))
        /\ IsPrefix(obs.last_fold.touched, SortByDateName(obs.given))

\* C8, amended: the units are applied, in the template fold and in the
\* document fold of every document, in the order of the list handed to the
\* run; the list of the pending units is in ascending order of date.
C8_AppliedInListOrder ==
    mig.cmd = "run" =>
        /\ IsPrefix(obs.tpl_order, obs.given)
        /\ IsPrefix(obs.last_fold.touched, obs.given)
        /\ ~mig.explicit =>
               \A i, j \in 1..Len(obs.given) :
                   i < j => registry[obs.given[i]].date <= registry[obs.given[j]].date

C8_Witness ==
    /\ mig.cmd = "run"
    /\ ~mig.explicit
    /\ Len(obs.given) >= 3
    /\ obs.given # SortByDateName(obs.given)
    /\ obs.tpl_order = obs.given
    /\ Len(obs.last_fold.touched) >= 2

\* C9: the units of an explicit list of names are applied to the templates
\* and to every document in exactly the order the names were given, whatever
\* their dates.
C9_ExplicitOrder ==
    (mig.cmd = "run" /\ mig.explicit) =>
        /\ IsPrefix(obs.tpl_order, mig.args)
        /\ IsPrefix(obs.last_fold.touched, mig.args)
        /\ pc \in {"create_dummy_indexes", "populate_dummy_indexes", "migrate_templates"}
               => obs.tpl_order = mig.args
        /\ obs.last_fold.status = "ok" => obs.last_fold.touched = mig.args

C9_Witness ==
    /\ mig.cmd = "run"
    /\ mig.explicit
    /\ Len(mig.args) = 2
    /\ registry[mig.args[1]].date > registry[mig.args[2]].date
    /\ obs.tpl_order = mig.args
    /\ obs.last_fold.status = "ok"
    /\ obs.last_fold.touched = mig.args

\* The registered names a history leaves pending.
PendingNames(hist) ==
    {n \in MigrationNames : registry[n].repeat \/ n \notin {h.name : h \in hist}}

\* C10: get_pending_migrations returns exactly the registered units whose name
\* is absent from the history or whose repeat flag is set, each once, in
\* ascending order of (date, name).
C10_PendingByDateName ==
    mig.cmd = "migrations" =>
        NamesOf(mig.migrations) =
            SortByDateName(SelectSeq(NameOrder, LAMBDA n : n \in PendingNames(history)))

\* C11: when migrate is called without a list and the pending units it
\* resolves are not empty, it goes on through the stages and applies them; it
\* returns at once only when the resolved list is empty.
C11_PendingApplied ==
    (mig.cmd = "migrate" /\ mig.migrations # <<>> /\ pc = "idle" /\ fail_state = "none")
    => obs.tpl_order = NamesOf(mig.migrations)

\* The distinct target indexes of a list of bulk actions.
TargetIndexes(actions) == {actions[i].index : i \in 1..Len(actions)}

C13_AtMostThreeBulkCalls == bw.flush_calls <= 3

\* C14: the exit of a with-block flushes the remaining actions when the block
\* ended without an exception, and sends nothing when it ended with one.
C14_ExitFlushesUnlessException ==
    bw.exit.done =>
        IF bw.exit.exc
        THEN bw.state = "closed" /\ Len(bw.calls) = bw.exit.calls
        ELSE /\ \A i \in (bw.exit.calls + 1)..Len(bw.calls) :
                    bw.calls[i].actions = bw.exit.actions
             /\ bw.state = "closed" =>
                    /\ bw.actions = <<>>
                    /\ bw.exit.actions # <<>> =>
                           /\ Len(bw.calls) > bw.exit.calls
                           /\ bw.calls[Len(bw.calls)].ok

\* A block left by an exception with actions still buffered, beside which a
\* flush had been made before.
C14_Witness ==
    /\ bw.state = "closed"
    /\ bw.exit.exc
    /\ bw.exit.actions # <<>>
    /\ bw.calls # <<>>

\* The actions of the bulk calls that succeeded, in the order of the calls.
RECURSIVE Sent(_)
Sent(calls) ==
    IF calls = <<>> THEN <<>>
    ELSE (IF Head(calls).ok THEN Head(calls).actions ELSE <<>>) \o Sent(Tail(calls))

\* C15: as long as no flush ended in failure and no block was left by an
\* exception, the actions of the successful bulk calls followed by the
\* actions still buffered are the added actions, once each and in order; so
\* after a final flush the successful calls carry exactly the added actions.
C15_EachActionSentOnce ==
    (bw.state \in {"open", "closed"} /\ ~bw.raised /\ ~bw.exit.exc)
        => Sent(bw.calls) \o bw.actions = bw.added

\* Every add made, two flushes done, one of them after a failed bulk call.
C15_Witness ==
    /\ bw.state = "closed"
    /\ ~bw.raised /\ ~bw.exit.exc
    /\ Len(bw.added) = MaxAdds
    /\ bw.actions = <<>>
    /\ \E i, j, k \in 1..Len(bw.calls) :
           i < j /\ j < k /\ bw.calls[i].ok /\ ~bw.calls[j].ok /\ bw.calls[k].ok
\* The calls of add, among `calls`, that returned normally for the name n.
Accepted(calls, n) ==
    {i \in 1..Len(calls) : ~calls[i].raised /\ calls[i].migration.name = n}

\* C16: add rejects a unit whose name is registered already and a unit that
\* is not internal and has a slash in its name, and no other; a rejected add
\* leaves the registry as it was; every registered name maps to the first
\* unit that was added under it without rejection.
C16_RegistryAdd ==
    /\ reg.calls # <<>> =>
        LET last == reg.calls[Len(reg.calls)]
        IN /\ last.raised <=>
                  \/ last.migration.name \in DOMAIN reg.before
                  \/ HasSlash(last.migration.name) /\ ~last.migration.internal
           /\ last.raised => reg.registry = reg.before
    /\ DOMAIN reg.registry = {n \in UnitNames : Accepted(reg.calls, n) # {}}
    /\ \A n \in DOMAIN reg.registry :
           \E i \in Accepted(reg.calls, n) :
               /\ \A j \in Accepted(reg.calls, n) : i <= j
               /\ reg.registry[n] = reg.calls[i].migration

\* A slash name refused to a user unit, accepted for an internal unit, and a
\* second unit of that name refused.
C16_Witness ==
    /\ Len(reg.calls) = 3
    /\ HasSlash(reg.calls[1].migration.name) /\ reg.calls[1].raised
    /\ HasSlash(reg.calls[2].migration.name) /\ ~reg.calls[2].raised
    /\ reg.calls[3].migration.name = reg.calls[2].migration.name
    /\ reg.calls[3].migration # reg.calls[2].migration
    /\ reg.calls[3].migration.internal /\ reg.calls[3].raised
\* A run that was not dry, had units to apply and went through every stage.
Completed ==
    /\ mig.cmd = "run" /\ ~mig.dry /\ mig.migrations # <<>>
    /\ pc = "idle" /\ fail_state = "none"

\* The affected indexes of the run, as a set.
Affected == {mig.affected[i] : i \in 1..Len(mig.affected)}

\* The fold of the units of the run over the pre-run document d of index I.
FoldOf(I, d) ==
    DocFold(mig.migrations, 1,
            [index |-> I, type |-> d.type, id |-> d.id, source |-> d.source], <<>>)

\* The documents the folds of the pre-run documents of the indexes in `from`
\* leave for the index `to`.
Folded(from, to) ==
    UNION {{[type |-> FoldOf(I, d).doc.type, id |-> FoldOf(I, d).doc.id,
             source |-> FoldOf(I, d).doc.source] :
               d \in {x \in obs.pre[I].docs : /\ FoldOf(I, x).status = "ok"
                                             /\ FoldOf(I, x).doc.index = to}}
           : I \in from}

\* C17 as stated: after a run that is not dry and completes, every affected
\* index holds exactly the folds, not null, of its own pre-run documents, and
\* an index that is not affected holds its pre-run documents.
C17_AffectedHoldOwnFolds ==
    Completed =>
        \A I \in UserIndexes :
            indexes[I].docs = IF I \in Affected
                              THEN UNION {Folded({I}, J) : J \in UserIndexes}
                              ELSE obs.pre[I].docs

\* C17: after a run that is not dry and completes, every fold that is not
\* null of a pre-run document of an affected index is in the index the folded
\* document names, unless another such fold of the same type and id took its
\* place; an affected index holds nothing else, and an index that is not
\* affected holds beside them its pre-run documents that no fold replaced.
\* When every fold keeps its index, each affected index holds exactly the
\* folds of its own pre-run documents and the other indexes are unchanged.
C17_FoldsInNamedIndex ==
    Completed =>
        \A J \in UserIndexes :
            LET folded == Folded(Affected, J)
                own == IF J \in Affected THEN {} ELSE obs.pre[J].docs
            IN /\ indexes[J].docs \subseteq folded \cup own
               /\ \A f \in folded :
                      \E d \in indexes[J].docs \cap folded : KeyOf(d) = KeyOf(f)
               /\ \A d \in own :
                      (\A f \in folded : KeyOf(f) # KeyOf(d)) => d \in indexes[J].docs
               /\ \A d, e \in indexes[J].docs : KeyOf(d) = KeyOf(e) => d = e
               /\ (\A I \in Affected : \A K \in UserIndexes \ {I} : Folded({I}, K) = {})
                      => indexes[J].docs = IF J \in Affected THEN Folded({J}, J)
                                           ELSE obs.pre[J].docs

\* A completed run in which one fold moved a document to another index,
\* where it replaced a document, and another fold was null.
C17_Witness ==
    /\ Completed
    /\ \E d \in obs.pre[ta].docs :
           /\ FoldOf(ta, d).status = "ok"
           /\ FoldOf(ta, d).doc.index = tb
           /\ \E e \in obs.pre[tb].docs : KeyOf(e) = KeyOf(d) /\ e \notin indexes[tb].docs
    /\ \E d \in obs.pre[ta].docs : FoldOf(ta, d).status = "null"
\* The two runs and the one run of a comparison are all done, without failure.
Compared == trial.step = 5 /\ pc = "idle" /\ fail_state = "none"

\* C18 as stated: two units run one after the other, and the two run
\* together from the same store, leave the same documents and the same
\* template catalog.
C18_TwoRunsAsOneRun ==
    Compared =>
        /\ [n \in UserIndexes |-> indexes[n].docs] = trial.docs
        /\ templates = trial.templates
\* Whether the fold of the units named leaves every document of the store
\* the comparison starts from in its index.
KeepsIndex(names) ==
    \A I \in UserIndexes : \A d \in InitIndexes[I].docs :
        DocFold([i \in 1..Len(names) |-> registry[names[i]]], 1,
                [index |-> I, type |-> d.type, id |-> d.id, source |-> d.source],
                <<>>).doc.index = I

\* C18: when no transform of the two units changes the index of a document,
\* the two units run one after the other, and the two run together from the
\* same store, leave the same documents and the same template catalog.
C18_TwoRunsAsOneRunSameIndex ==
    (Compared /\ KeepsIndex(<<trial.first, trial.second>>)) =>
        /\ [n \in UserIndexes |-> indexes[n].docs] = trial.docs
        /\ templates = trial.templates

\* A comparison done for two units that keep the index, of which one changed
\* a document and the templates and the other removed a document.
C18_Witness ==
    /\ Compared
    /\ KeepsIndex(<<trial.first, trial.second>>)
    /\ templates # InitTemplates
    /\ \E d \in InitIndexes[ta].docs :
           \A e \in indexes[ta].docs : KeyOf(e) # KeyOf(d)
    /\ \E d \in InitIndexes[ta].docs, e \in indexes[ta].docs :
           KeyOf(e) = KeyOf(d) /\ e # d
\* `reindex a=>b` done without failure, not dry, where a existed and b did
\* not when the command began.
Reindexed ==
    /\ mig.cmd = "reindex" /\ ~mig.dry
    /\ mig.args = <<ta \o <<"=", ">">> \o tb>>
    /\ mig.migrations # <<>>
    /\ pc = "idle" /\ fail_state = "none"
    /\ obs.pre[ta].exists /\ ~obs.pre[tb].exists

\* C19 as stated: after a successful `reindex a=>b`, b absent before, a does
\* not exist, b holds exactly the documents a held, no shadow of a remains.
C19_ReindexMoves ==
    Reindexed =>
        /\ ~indexes[ta].exists
        /\ indexes[tb].docs = obs.pre[ta].docs
        /\ ~indexes[get_dummy_index(ta)].exists

\* C19: after a successful `reindex a=>b`, b absent before, a does not exist
\* and b holds exactly the documents a held; the shadow of a remains only when
\* its removal raised, and then it holds the documents a held.
C19_ReindexMovesShadowRemoved ==
    Reindexed =>
        /\ ~indexes[ta].exists
        /\ indexes[tb].docs = obs.pre[ta].docs
        /\ indexes[get_dummy_index(ta)].exists =>
               /\ obs.dummy_err
               /\ indexes[get_dummy_index(ta)].docs = obs.pre[ta].docs

\* A reindex done with the shadow removed, where a shadow with other
\* documents had been left over before the command.
C19_Witness ==
    /\ Reindexed
    /\ obs.pre[get_dummy_index(ta)].exists
    /\ ~indexes[get_dummy_index(ta)].exists
    /\ indexes[tb].docs = DocsA
\* C20: with keep_dummies set, the dummies a run that is not dry has created
\* and filled still exist when the run has ended, in success or after its
\* inline recovery.
C20_DummiesKept ==
    (mig.cmd = "run" /\ ~mig.dry /\ mig.keep_dummies /\ obs.copied /\ pc = "idle")
        => \A i \in 1..Len(mig.affected) : indexes[get_dummy_index(mig.affected[i])].exists
\* restore_templates done without failure, not dry, with the options `opt`.
RestoredTemplates ==
    /\ mig.cmd = "restore_templates" /\ ~mig.dry
    /\ mig.migrations # <<>>
    /\ pc = "idle" /\ fail_state = "none"

\* C21: after restore_templates F completes, not dry, the template catalog of
\* the store equals the map loaded from F.
C21_CatalogEqualsFile ==
    RestoredTemplates => templates = files[mig.args[1]].templates.data

\* C22: restore_templates with default options writes no history record and
\* does not put the history template.
C22_RestoreTemplatesNoHistory ==
    (RestoredTemplates /\ ~mig.keep_dummies /\ mig.restore) =>
        /\ history = obs.pre_history
        /\ templates[history_template] = files[mig.args[1]].templates.data[history_template]
\* C23: restore_cleanup removes, kind by kind, only recovery files whose stamp
\* is older than the cutoff, and none of the keep_files most recent files of
\* a kind; with --dry it removes nothing.
C23_CleanupKeepsRecent ==
    cleanup.call.done =>
        /\ cleanup.dir \subseteq cleanup.before
        /\ cleanup.call.dry => cleanup.dir = cleanup.before
        /\ \A f \in cleanup.before \ cleanup.dir :
               /\ f.kind \in RecoveryKinds
               /\ cleanup.call.older_than # 0 => strptime(f.stamp) < cleanup.call.older_than
               /\ Cardinality({g \in cleanup.before :
                                  g.kind = f.kind /\ strptime(g.stamp) > strptime(f.stamp)})
                      >= cleanup.call.keep_files

\* A cleanup with a cutoff that removed the oldest file of a kind, kept an
\* older-than-cutoff file as one of the most recent, and kept a newer one.
C23_Witness ==
    /\ cleanup.call.done /\ ~cleanup.call.dry
    /\ cleanup.call.older_than = 11 /\ cleanup.call.keep_files = 2
    /\ [kind |-> "indexes", stamp |-> <<0, 9>>] \in cleanup.before \ cleanup.dir
    /\ [kind |-> "indexes", stamp |-> <<1, 0>>] \in cleanup.dir
    /\ [kind |-> "indexes", stamp |-> <<1, 1>>] \in cleanup.dir
    /\ [kind |-> "other", stamp |-> <<0, 9>>] \in cleanup.dir
\* C24: each run stamps its history records with the instant at which that
\* run began: after a successful library run through the Migrates object of
\* test_sequence.py, begun at instant ncmd, the record of every unit of the
\* run carries the stamp ncmd (so a later run never reuses the record id of
\* an earlier one).
C24_RecordsStampedAtRunStart ==
    (pc = "idle" /\ fail_state = "none" /\ mig.cmd = "migrate" /\ trial.step \in {2, 3}) =>
        \A i \in 1..Len(mig.migrations) :
            migration_action(mig.migrations[i], ncmd) \in history
\* C25: in a non-dry run with a recovery path the three recovery files are
\* written in the order original templates, pending history actions, affected
\* index list (a later file is never there without the earlier ones), and
\* all three are there once a mutating store operation was issued.
C25_RecoveryFilesOrdered ==
    (mig.cmd = "run" /\ ~mig.dry /\ mig.restore) =>
        LET f == files[mig.stamp]
        IN /\ f.migrations.written => f.templates.written
           /\ f.indexes.written => f.migrations.written
           /\ obs.mutated =>
                  f.templates.written /\ f.migrations.written /\ f.indexes.written

C25_Witness ==
    /\ mig.cmd = "run" /\ ~mig.dry /\ mig.restore
    /\ pc = "idle" /\ fail_state = "none" /\ obs.mutated
    /\ mig.affected # <<>>
    /\ files[mig.stamp].templates.written
    /\ files[mig.stamp].migrations.written
    /\ files[mig.stamp].indexes.written
\* C26: when one of the stages 1 to 6 of a run fails (resolving the pending
\* units, reading the templates, writing a recovery file, resolving the
\* affected indexes, computing the updated templates), the run ends at once in
\* the failure state of that stage (the recovery files written are those of
\* the stages before it), no mutating store operation and no recovery
\* operation is issued at any time in the run, and the store is as it was.
C26_EarlyFailureNoMutation ==
    (mig.cmd \in {"run", "migrate"} /\ fail_state \in NoRecoveryNeeded) =>
        /\ pc = "idle"
        /\ ~obs.mutated /\ ~obs.rec_err /\ ~obs.tpl_touched /\ ~obs.orig_deleted
        /\ indexes = obs.pre
        /\ templates = obs.pre_templates
        /\ history = obs.pre_history
        /\ LET f == files[mig.stamp]
               writes == ~mig.dry /\ mig.restore
           IN /\ fail_state = "GetMigrations" => mig.migrations = <<>>
              /\ fail_state \in {"GetMigrations", "GetTemplates", "BackupTemplates"} =>
                     ~f.templates.written
              /\ fail_state = "PendingMigrations" =>
                     f.templates.written /\ ~f.migrations.written
              /\ fail_state = "GetAffected" =>
                     (f.migrations.written <=> writes)
              /\ fail_state = "TransformTemplates" =>
                     (f.indexes.written <=> writes)
              /\ fail_state # "TransformTemplates" => mig.updated_templates = NoCatalog

C26_Witness ==
    /\ mig.cmd = "run" /\ ~mig.dry /\ mig.restore
    /\ fail_state = "TransformTemplates"
    /\ mig.affected # <<>>
    /\ files[mig.stamp].indexes.written
    /\ pc = "idle" /\ ~obs.mutated
\* C27: over one run of the recorder, through any sequence of pre, touch,
\* delete, error, post cycles, at most one before/after diff is logged for
\* each (index, type) pair.
C27_OneDiffPerPair ==
    \A p \in UserIndexes \X DocTypes :
        Cardinality({i \in 1..Len(det.self.logger) :
                        /\ det.self.logger[i].kind = "diff"
                        /\ det.self.logger[i].index = p[1]
                        /\ det.self.logger[i].type = p[2]}) <= 1

C27_Witness ==
    /\ det.at = "scan" /\ det.ndocs = MaxDocuments
    /\ det.self.index_touched[ta] = MaxDocuments
    /\ det.self.shown_doc_types[ta] = {typ}
    /\ det.self.index_deleted[ta] = 0
    /\ \E i \in 1..Len(det.self.logger) :
           det.self.logger[i].kind = "diff" /\ det.self.logger[i].id = 1
\* C28: after a failure at any point inside the stage that applies the
\* templates (after any prefix of its deletes and puts, all of them included)
\* the inline recovery completes the template revert without error (the store
\* accepts every operation the revert issues) and leaves the template catalog
\* equal to the catalog of before the run.
C28_TemplateRevertCompletes ==
    (mig.cmd = "run" /\ ~mig.dry /\ fail_state = "PersistTemplates") =>
        /\ (pc = "revert_templates" /\ ops # <<>>) =>
               TemplateOpAccepted(templates, Head(ops))
        /\ (pc = "idle" /\ ~obs.rec_err) => templates = obs.pre_templates
\* C29: migrate_templates(original, updated), run to completion against a
\* store whose catalog is `original`, leaves the catalog equal to `updated`:
\* a name only in original is deleted, a name whose body differs is deleted and
\* then put, a name only in updated is put, and no delete or put is issued for
\* a name whose body is the same in both; the store accepts every operation.
OpsOn(plan, op, name) == {i \in 1..Len(plan) : plan[i].op = op /\ plan[i].name = name}

C29_TemplatesApplied ==
    (mig.cmd = "restore_templates" /\ ~mig.dry /\ fail_state = "none") =>
        LET original == mig.original_templates
            updated == mig.updated_templates
            plan == migrate_templates(original, updated)
        IN /\ pc = "migrate_templates" =>
                 /\ \E k \in 0..Len(plan) : ops = SubSeq(plan, k + 1, Len(plan))
                 /\ ops # <<>> => TemplateOpAccepted(templates, Head(ops))
                 /\ ops = plan => templates = original
                 /\ \A name \in TplNames :
                        LET deletes == OpsOn(plan, "delete", name)
                            puts == OpsOn(plan, "put", name)
                        IN /\ Cardinality(deletes) = IF original[name] # 0
                                                        /\ original[name] # updated[name]
                                                     THEN 1 ELSE 0
                           /\ Cardinality(puts) = IF updated[name] # 0
                                                     /\ original[name] # updated[name]
                                                  THEN 1 ELSE 0
                           /\ \A d \in deletes, p \in puts : d < p
                           /\ \A p \in puts : plan[p].body = updated[name]
           /\ pc = "remove_dummies" => templates = updated

C29_Witness ==
    /\ mig.cmd = "restore_templates" /\ ~mig.dry /\ fail_state = "none"
    /\ pc = "remove_dummies"
    /\ mig.original_templates = [n \in TplNames |->
           CASE n = "T1" -> 1 [] n = "T2" -> 1 [] OTHER -> 0]
    /\ templates = [n \in TplNames |->
           CASE n = "T1" -> 2 [] n = "T2" -> 0 [] OTHER -> 9]
    /\ obs.tpl_touched
C32_WriteHistoryFailure ==
    (mig.cmd = "run" /\ ~mig.dry /\ fail_state = "WriteHistory") =>
        /\ pc = "idle"
        /\ ~obs.rec_err /\ ~obs.revert_failed
        /\ \A n \in TplNames \ {history_template} : templates[n] = mig.updated_templates[n]
        /\ \A J \in UserIndexes :
               LET folded == Folded(Affected, J)
                   own == IF J \in Affected THEN {} ELSE obs.pre[J].docs
               IN /\ indexes[J].docs \subseteq folded \cup own
                  /\ \A f \in folded :
                         \E d \in indexes[J].docs \cap folded : KeyOf(d) = KeyOf(f)
        /\ ~obs.crashed
        /\ files[mig.stamp].migrations.written
        /\ files[mig.stamp].migrations.data = migration_actions(mig)
\* C33: the settings snapshot of an affected index keeps every setting read
\* from the store but the creation date, so the dummy created from the
\* snapshot has the settings (here the number of shards) and the mappings of
\* the original index.
C33_SnapshotKeepsSettings ==
    (mig.cmd = "run" /\ ~mig.dry /\ pc = "populate_dummy_indexes") =>
        \A i \in 1..Len(mig.affected) :
            LET index == mig.affected[i]
                dummy == get_dummy_index(index)
            IN /\ mig.settings[index].settings.number_of_shards
                      = obs.pre[index].settings.number_of_shards
               /\ indexes[dummy].settings.number_of_shards
                      = obs.pre[index].settings.number_of_shards
               /\ indexes[dummy].mappings = obs.pre[index].mappings
\* C34: when a run failed in MigrateDocuments and its index revert did not
\* complete, so that at the start of the next run over the same units the
\* shadow of an index holds the only complete copy of its pre-run documents,
\* the next run never leaves that index without a complete copy: at every
\* moment of the second run the shadow still holds the pre-run documents or
\* the original index holds them again.
C34_ShadowsSurviveRerun ==
    \A index \in UserIndexes :
        IF obs.last_run.revert_failed /\ mig.cmd = "run"
        THEN LET dummy == get_dummy_index(index)
                 before == obs.last_run.pre[index]
                 Holds(idx, n) == idx[n].exists /\ before.docs \subseteq idx[n].docs
             IN (/\ before.exists
                 /\ Holds(obs.pre, dummy)
                 /\ ~Holds(obs.pre, index))
                => (Holds(indexes, dummy) \/ Holds(indexes, index))
        ELSE TRUE
\* C35: no step of the index revert (inline after a MigrateDocuments failure
\* or started by restore_indexes), the removal of the dummies that ends it
\* included, changes an affected index whose dummy does not exist: the
\* index, its settings, its mappings and its documents stay as they are.
C35_RevertLeavesUnshadowed ==
    [][(pc \in {"revert_indexes_migration", "revert_copy"}
        \/ (pc = "remove_dummy_indexes"
            /\ (fail_state = "MigrateDocuments" \/ mig.cmd = "restore_indexes")))
       => \A i \in 1..Len(mig.affected) :
             ~indexes[get_dummy_index(mig.affected[i])].exists
             => indexes'[mig.affected[i]] = indexes[mig.affected[i]]]_vars

\* restore_indexes has ended without error, it recreated an index from its
\* dummy, and another affected index that had no dummy is as it was.
C35_Witness ==
    /\ mig.cmd = "restore_indexes"
    /\ pc = "idle"
    /\ obs.orig_deleted
    /\ ~obs.rec_err
    /\ ~obs.crashed
    /\ \E index \in Affected :
          /\ obs.pre[index].exists
          /\ obs.pre[index].docs # {}
          /\ ~obs.pre[get_dummy_index(index)].exists
          /\ indexes[index] = obs.pre[index]
\* C36: a step of the index revert deletes a dummy only in the removal that
\* ends it, when the revert has not failed, the bulk writer of the
\* copy is flushed, and every affected index whose dummy still exists has
\* been recreated and holds the documents of its dummy; the recreate loop,
\* the copy loop and the except clause delete no dummy.
C36_DummiesDeletedLast ==
    [][((pc \in {"revert_indexes_migration", "revert_copy"}
         \/ (pc = "remove_dummy_indexes"
             /\ (fail_state = "MigrateDocuments" \/ mig.cmd = "restore_indexes")))
        /\ \E n \in UserIndexes : /\ indexes[get_dummy_index(n)].exists
                                  /\ ~indexes'[get_dummy_index(n)].exists)
       => /\ pc = "remove_dummy_indexes"
          /\ ~obs.revert_failed
          /\ batch = <<>>
          /\ \A i \in 1..Len(mig.affected) :
                LET index == mig.affected[i]
                    dummy == get_dummy_index(index)
                IN indexes[dummy].exists
                   => /\ indexes[index].exists
                      /\ indexes[index].docs = indexes[dummy].docs]_vars

\* The revert after a MigrateDocuments failure has recreated the originals,
\* copied the documents back and removed the first of two dummies.
C36_Witness ==
    /\ mig.cmd = "run"
    /\ fail_state = "MigrateDocuments"
    /\ pc = "remove_dummy_indexes"
    /\ pos = 2
    /\ Len(mig.affected) = 2
    /\ obs.orig_deleted
    /\ ~obs.rec_err
    /\ ~indexes[get_dummy_index(mig.affected[1])].exists
    /\ indexes[get_dummy_index(mig.affected[2])].exists
    /\ indexes[mig.affected[1]].docs # {}
\* C37: whatever the failure state and the configuration, the recovery path
\* unset included, no exception leaves a run: the stage wrappers catch the
\* stage errors and the failure handler, its template and index revert and
\* their failure reporting included, raises nothing.
C37_MigrateReturnsNormally ==
    mig.cmd \in {"run", "migrate"} => ~obs.crashed
\* The documents the loop over self.migrations hands to the units it reaches,
\* in order, for one scanned document.
RECURSIVE FoldTrace(_, _, _)
FoldTrace(migrations, i, document) ==
    IF i > Len(migrations) THEN <<>>
    ELSE LET r == transform_document(migrations[i], document)
         IN <<document>> \o (IF r.status = "ok"
                             THEN FoldTrace(migrations, i + 1, r.doc) ELSE <<>>)

\* The scanned document of type and id of d under the index name `index`.
DocumentOf(index, d) ==
    [index |-> index, type |-> d.type, id |-> d.id, source |-> d.source]

\* C38 as stated: while a run that is not dry transforms the documents, every
\* unit the loop reaches for a document read from the dummy of I selects the
\* transform that its patterns select for the name I.
C38_SelectedByOriginalName ==
    (mig.cmd \in {"run", "migrate"} /\ ~mig.dry /\ pc = "migrate_indexes") =>
        \A I \in Affected : \A d \in indexes[get_dummy_index(I)].docs :
            LET trace == FoldTrace(mig.migrations, 1,
                                   ScannedDocument(mig, get_dummy_index(I), d))
            IN \A i \in 1..Len(trace) :
                  get_document_transform(mig.migrations[i], trace[i])
                  = get_document_transform(mig.migrations[i], DocumentOf(I, trace[i]))

\* C38: while a run that is not dry transforms the documents, the first unit
\* sees a document read from the dummy of I under the name I, every unit
\* selects its transform by the name the document carries when the unit is
\* reached (I until a transform changes `_index`), and what the bulk writer
\* holds are folds so computed: a document whose transforms leave `_index`
\* alone is queued for I.
C38_SelectedByCarriedName ==
    (mig.cmd \in {"run", "migrate"} /\ ~mig.dry /\ pc = "migrate_indexes") =>
        /\ \A I \in Affected : \A d \in indexes[get_dummy_index(I)].docs :
              ScannedDocument(mig, get_dummy_index(I), d) = DocumentOf(I, d)
        /\ \A k \in 1..Len(batch) :
              \E I \in Affected : \E d \in indexes[get_dummy_index(I)].docs :
                 LET trace == FoldTrace(mig.migrations, 1, DocumentOf(I, d))
                 IN /\ FoldOf(I, d).status = "ok"
                    /\ batch[k] = FoldOf(I, d).doc
                    /\ (\A i \in 1..Len(trace) : trace[i].index = I)
                          /\ FoldOf(I, d).doc.index = I => batch[k].index = I

\* The bulk writer holds a document that a unit moved from ta to tb, after
\* which a later unit whose pattern matches ta only was reached.
C38_Witness ==
    /\ mig.cmd \in {"run", "migrate"}
    /\ ~mig.dry
    /\ pc = "migrate_indexes"
    /\ \E k \in 1..Len(batch) : \E d \in indexes[get_dummy_index(ta)].docs :
          LET trace == FoldTrace(mig.migrations, 1, DocumentOf(ta, d))
          IN /\ batch[k] = FoldOf(ta, d).doc
             /\ batch[k].index = tb
             /\ \E i \in 1..Len(trace) :
                   /\ trace[i].index = tb
                   /\ get_document_transform(mig.migrations[i], trace[i])
                      # get_document_transform(mig.migrations[i], DocumentOf(ta, trace[i]))
\* C39: a run that is not dry and has the history enabled, once it has
\* ended, has written one history record for each of its units when it
\* completed every stage, and no history record when it ended in a failure
\* state (or returned before the first stage, leaving the store untouched);
\* so the units of a failed run are as pending as before it.
C39_HistoryIffCompleted ==
    (mig.cmd \in {"run", "migrate"} /\ ~mig.dry /\ ~mig.no_history /\ pc = "idle") =>
        LET written == history \ obs.pre_history
            actions == migration_actions(mig)
        IN IF fail_state = "none" /\ obs.mutated
           THEN written = {actions[i] : i \in 1..Len(actions)}
           ELSE /\ written = {}
                /\ get_performed_migrations(history)
                   = get_performed_migrations(obs.pre_history)
\* C40: when post has just logged a document, the note is a deletion note
\* only if delete was called for that document since its pre, an error note
\* only if error was called for it since its pre, and the before/after diff
\* when neither was called: what was recorded for an earlier document does
\* not decide the note of a later one.
C40_NoLeakBetweenDocuments ==
    (det.at = "scan" /\ det.self.logger # <<>>) =>
        LET last == det.self.logger[Len(det.self.logger)]
        IN last.id = det.ndocs =>
              /\ last.kind = "deleted" => det.deleted
              /\ last.kind = "errored" => det.errored
              /\ last.kind = "diff" <=> (~det.deleted /\ ~det.errored)
====
